---- MODULE Spec2Model ----
(***************************************************************************)
(* A model of the PDFWorkbench document core: the document loader with its *)
(* password-retry loop (src/lib/pdfLoader), the merge operation            *)
(* (src/lib/pdfMerge) and the two split modes (src/lib/pdfSplit).          *)
(*                                                                         *)
(* Every operation is an async function; an action of the model is one     *)
(* continuation of it, from one await to the next.  The external services  *)
(* (pdf.js getDocument, pdf-lib PDFDocument) resolve or reject             *)
(* nondeterministically.  Only one operation runs in a behaviour: each     *)
(* specification below drives one operation and leaves the others idle.    *)
(***************************************************************************)
EXTENDS Integers, Sequences, FiniteSets, TLC

VARIABLES
    \* ---- loadPdfFromSource / loadPdfFromFile ----
    lpc,            \* position of the loader
    entry,          \* "source" (loadPdfFromSource) or "file" (loadPdfFromFile)
    hasCallback,    \* options?.requestPassword is supplied
    secret,         \* the password the document is encrypted with (Absent: none)
    sourcePassword, \* source.password
    password,       \* the local variable password
    heap,           \* the byte buffers: id -> [bytes, detached]
    parserInput,    \* the buffer given to getDocument on this attempt (0: none)
    handedLog,      \* the buffers given to getDocument, one per attempt
    attempts,       \* number of attempts started
    doc,            \* the local variable doc: a handle id, 0 for null
    handles,        \* handle id -> "none" | "open" | "destroyed"
    reads,          \* outcome of the three best-effort reads
    lerror,         \* the mapped error of the failed attempt
    asked,          \* the reasons the password callback was invoked with
    response,       \* the last value the password callback returned
    lresult,        \* the LoadedPdf returned (NoResult before)
    \* ---- mergeLoadedPdfs ----
    mpc,            \* position of the merge
    mdocs,          \* the argument documents
    mi,             \* the input the for..of loop is at (1-based)
    msource,        \* pages of the parsed input (const source)
    mout,           \* the output document: [created, pages]
    mparsed,        \* number of PDFDocument.load calls made
    mcause,         \* what a service threw
    mthrown,        \* what the caller receives as rejection
    mbytes,         \* what the caller receives as result: [returned, pages]
    \* ---- extractPagesFromLoadedPdf ----
    epc,            \* position of the extraction
    eargs,          \* the arguments: [pageCount, pageNumbers]
    eselection,     \* const selection
    esource,        \* pages of the parsed source document
    eout,           \* the output document
    eparsed,        \* number of PDFDocument.load calls made
    ecause,         \* what a service threw
    ethrown,        \* what the caller receives as rejection
    ebytes,         \* what the caller receives as result
    \* ---- splitPdfByChunkSize ----
    cpc,            \* position of the chunking
    cargs,          \* the arguments: [pageCount, chunkSize]
    csource,        \* pages of the parsed source document
    cstart,         \* the loop variable start, in halves
    cindex,         \* the variable index
    cdoc,           \* chunkDoc, the document of the chunk being built
    cchunks,        \* the array chunks
    cparsed,        \* number of PDFDocument.load calls made
    ccause,         \* what a service threw
    cthrown,        \* what the caller receives as rejection
    creturned,      \* the caller has received chunks
    \* ---- applyPageEdits ----
    apc,            \* position of the export
    aargs,          \* the arguments: [pageCount, pages]
    akept,          \* const keptPages
    ak,             \* the descriptor the for..of loop is at (1-based)
    asource,        \* pages of the parsed source document
    aout,           \* the output document
    aparsed,        \* number of PDFDocument.load calls made
    acause,         \* what a service threw
    athrown,        \* what the caller receives as rejection
    abytes,         \* what the caller receives as result
    \* ---- PageEditorPage ----
    pdf,            \* page count of the loaded document (0: pdf is null)
    editorPages,    \* the state pages: the descriptor list
    history,        \* the state history: snapshots, most recent first
    dragSourceId,   \* dragSourceId.current (NoId: null)
    lastOp,         \* the handler that ran last
    edits,          \* edit requests made out of the budget of free edits
    discarded,      \* a snapshot was dropped from the history
    \* ---- hasPngSignature / isPngBytesComplete ----
    pngPc,          \* position of isPngBytesComplete
    pngMade,        \* how the argument was made: [chunks, damage, keep]
    pngBytes,       \* the argument bytes
    pngOffset,      \* the variable offset
    pngReads,       \* the offsets at which the view has been read
    pngSig,         \* what hasPngSignature(bytes) returned
    pngResult,      \* what isPngBytesComplete(bytes) returned
    \* ---- ImagesToPdfPage ----
    ipc,            \* position of handleFiles
    ifile,          \* the file being added: [type, bytes]
    irepaired,      \* how the PNG re-encoding settled: [outcome, bytes]
    images,         \* the state images: assets [embedType, bytes]
    ierror,         \* the state error
    xpc,            \* position of handleExport
    xk,             \* the asset the for..of loop of handleExport is at
    embedLog,       \* the embedPng / embedJpg calls made: [method, bytes]
    \* ---- computeImagePlacement ----
    placed,         \* computeImagePlacement has returned
    pargs,          \* the arguments: [imageWidth, imageHeight, page, mode]
    placement,      \* the ImagePlacement returned: [width, height, x, y]
    \* ---- compressPdfWithPreset ----
    cmpPc,          \* position in compressPdfWithPreset / buildCompressedPdf
    cmpArgs,        \* the call: [pageCount, presetId]
    cmpPage,        \* pageNum, the loop variable
    cmpOutput,      \* the pages added to the output document
    cmpWarnings,    \* the warnings array
    cmpResult,      \* what the call returned
    cmpError,       \* what the call threw
    cmpFailed,      \* ghost: the page numbers whose try block threw
    cmpStarted,     \* ghost: the page numbers in the order their processing began
    \* ---- estimateCompressedSize ----
    estimated,      \* estimateCompressedSize has returned
    estArgs,        \* the arguments: [originalSize, presetId]
    estResult,      \* the number returned
    \* ---- the error message shown for a failure ----
    failedOp,       \* the operation whose failure was caught by a page
    failCause,      \* the failure of a service under it, if one
    failThrown,     \* the value the operation threw
    shownError,     \* the message the page shows
    \* ---- useActivityLog ----
    logEntries,     \* entries of the activity log store, the first is the newest
    logAdded,       \* ghost: the number of addEntry calls made
    \* ---- usePdfAssets ----
    assets,         \* assets of the shared store, in their order
    isBusy,         \* isBusy of the store
    assetError,     \* error of the store
    sourcing,       \* addAsset calls waiting for createPdfSourceFromFile
    loadingAssets,  \* addAsset calls waiting for loadPdfFromSource
    assetCalls,     \* ghost: the addAsset calls made
    opened,         \* ghost: the parsed handles the loader returned
    destroyed,      \* ghost: the parsed handles destroy() was called on
    \* ---- MergeToolPage: ingestFiles and the password prompt ----
    ingests,        \* the ingestFiles calls: where each is and the files it has left
    passwordPrompt,  \* the state passwordPrompt: 0 for null, or the request whose resolve it holds
    requests        \* ghost: the promises requestPassword has made, in order

loadVars == <<lpc, entry, hasCallback, secret, sourcePassword, password, heap,
              parserInput, handedLog, attempts, doc, handles, reads, lerror,
              asked, response, lresult>>

mergeVars == <<mpc, mdocs, mi, msource, mout, mparsed, mcause, mthrown, mbytes>>

extractVars == <<epc, eargs, eselection, esource, eout, eparsed, ecause, ethrown, ebytes>>

chunkVars == <<cpc, cargs, csource, cstart, cindex, cdoc, cchunks, cparsed,
               ccause, cthrown, creturned>>

applyVars == <<apc, aargs, akept, ak, asource, aout, aparsed, acause, athrown, abytes>>

editVars == <<pdf, editorPages, history, dragSourceId, lastOp, edits, discarded>>

pngVars == <<pngPc, pngMade, pngBytes, pngOffset, pngReads, pngSig, pngResult>>

imageVars == <<ipc, ifile, irepaired, images, ierror, xpc, xk, embedLog>>

layoutVars == <<placed, pargs, placement>>
compressVars == <<cmpPc, cmpArgs, cmpPage, cmpOutput, cmpWarnings, cmpResult,
    cmpError, cmpFailed, cmpStarted>>
estimateVars == <<estimated, estArgs, estResult>>
friendlyVars == <<failedOp, failCause, failThrown, shownError>>
logVars == <<logEntries, logAdded>>
assetsVars == <<assets, isBusy, assetError, sourcing, loadingAssets,
    assetCalls, opened, destroyed>>
workspaceVars == <<ingests, passwordPrompt, requests>>

notLoad == <<mergeVars, extractVars, chunkVars, applyVars, editVars, pngVars,
    imageVars, layoutVars,
    compressVars,
    estimateVars,
    friendlyVars,
    logVars,
    assetsVars,
    workspaceVars>>
notMerge == <<loadVars, extractVars, chunkVars, applyVars, editVars, pngVars,
    imageVars, layoutVars,
    compressVars,
    estimateVars,
    friendlyVars,
    logVars,
    assetsVars,
    workspaceVars>>
notExtract == <<loadVars, mergeVars, chunkVars, applyVars, editVars, pngVars,
    imageVars, layoutVars,
    compressVars,
    estimateVars,
    friendlyVars,
    logVars,
    assetsVars,
    workspaceVars>>
notChunk == <<loadVars, mergeVars, extractVars, applyVars, editVars, pngVars,
    imageVars, layoutVars,
    compressVars,
    estimateVars,
    friendlyVars,
    logVars,
    assetsVars,
    workspaceVars>>
notApply == <<loadVars, mergeVars, extractVars, chunkVars, editVars, pngVars,
    imageVars, layoutVars,
    compressVars,
    estimateVars,
    friendlyVars,
    logVars,
    assetsVars,
    workspaceVars>>
notEdit == <<loadVars, mergeVars, extractVars, chunkVars, applyVars, pngVars,
    imageVars, layoutVars,
    compressVars,
    estimateVars,
    friendlyVars,
    logVars,
    assetsVars,
    workspaceVars>>
notImages == <<loadVars, mergeVars, extractVars, chunkVars, applyVars, editVars,
    pngVars, layoutVars,
    compressVars,
    estimateVars,
    friendlyVars,
    logVars,
    assetsVars,
    workspaceVars>>
notLayout == <<loadVars, mergeVars, extractVars, chunkVars, applyVars, editVars,
    pngVars, imageVars,
    compressVars,
    estimateVars,
    friendlyVars,
    logVars,
    assetsVars,
    workspaceVars>>
notPng == <<loadVars, mergeVars, extractVars, chunkVars, applyVars, editVars,
    imageVars, layoutVars,
    compressVars,
    estimateVars,
    friendlyVars,
    logVars,
    assetsVars,
    workspaceVars>>
notCompress == <<loadVars, mergeVars, extractVars, chunkVars, applyVars,
    editVars, pngVars, imageVars, layoutVars,
    estimateVars,
    friendlyVars,
    logVars,
    assetsVars,
    workspaceVars>>
notEstimate == <<loadVars, mergeVars, extractVars, chunkVars, applyVars,
    editVars, pngVars, imageVars, layoutVars, compressVars,
    friendlyVars,
    logVars,
    assetsVars,
    workspaceVars>>
notFriendly == <<loadVars, mergeVars, extractVars, chunkVars, applyVars,
    editVars, pngVars, imageVars, layoutVars, compressVars, estimateVars,
    logVars,
    assetsVars,
    workspaceVars>>
notLog == <<loadVars, mergeVars, extractVars, chunkVars, applyVars, editVars,
    pngVars, imageVars, layoutVars, compressVars, estimateVars, friendlyVars,
    assetsVars,
    workspaceVars>>
notAssets == <<loadVars, mergeVars, extractVars, chunkVars, applyVars,
    editVars, pngVars, imageVars, layoutVars, compressVars, estimateVars,
    friendlyVars, logVars,
    workspaceVars>>
notWorkspace == <<loadVars, mergeVars, extractVars, chunkVars, applyVars,
    editVars, pngVars, imageVars, layoutVars, compressVars, estimateVars,
    friendlyVars, logVars, assetsVars>>

(***************************************************************************)
(* Bounds.                                                                 *)
(***************************************************************************)
MaxAttempts == 3      \* attempts of one load the model follows
MaxPwLen == 2         \* length of a password string
MaxDocs == 3          \* documents given to merge
MaxDocPages == 2      \* pages of one merge input
MaxSplitPages == 3    \* pages of the document given to extract
MaxSelection == 3     \* length of the pageNumbers argument
MaxChunkPages == 5    \* pages of the document given to chunk
MaxApplyPages == 2    \* pages of the document given to apply
MaxApplyLen == 2      \* length of the descriptor list given to apply
MaxEditPages == 2     \* pages of the document opened in the editor
MaxFreeEdits == 2     \* edit requests of any kind in one session; further
                      \* requests keep turning page 1 the way it is turned
MaxTurns == 22        \* quarter turns a page is rotated away from 0
MaxPngChunks == 2     \* chunks of a PNG byte sequence
MaxChunkData == 1     \* data bytes of one chunk
MaxImageFiles == 2    \* images added to one export
MaxImageDim == 3      \* pixel width and height of an image
MaxPageDim == 3       \* width and height of a page box
MaxCompressPages == 5 \* pages of a document given to compress
MaxOriginalSize == 1300 \* byte size of a document whose compressed size is estimated
MaxNegativeSize == 2  \* how far below zero an original size goes
MaxLogAdds == 15      \* addEntry calls in one session
MaxAssetCalls == 3    \* addAsset calls in one session
MaxIngests == 2       \* ingestFiles calls in one session
MaxIngestFiles == 2   \* files of one ingestFiles call
MaxRequests == 3      \* password requests in one session

(***************************************************************************)
(* Strings are sequences of characters; " " is the white space trim()      *)
(* removes.  Absent stands for null/undefined.                             *)
(***************************************************************************)
Chars == {" ", "x"}
Strings == UNION {[1..k -> Chars] : k \in 0..MaxPwLen}
Absent == [present |-> FALSE, text |-> <<>>]
Text(s) == [present |-> TRUE, text |-> s]
MaybeStrings == {Absent} \cup {Text(s) : s \in Strings}

RECURSIVE TrimStart(_)
TrimStart(s) ==
    IF s = <<>> THEN s
    ELSE IF Head(s) = " " THEN TrimStart(Tail(s)) ELSE s

RECURSIVE TrimEnd(_)
TrimEnd(s) ==
    IF s = <<>> THEN s
    ELSE IF s[Len(s)] = " " THEN TrimEnd(SubSeq(s, 1, Len(s) - 1)) ELSE s

Trim(s) == TrimEnd(TrimStart(s))

(***************************************************************************)
(* Errors.  A raw error is what a service throws; a PdfLoadError is what   *)
(* the core throws.                                                        *)
(***************************************************************************)
NEED_PASSWORD == 1
INCORRECT_PASSWORD == 2

NoError == [kind |-> "none", code |-> "none", message |-> "none"]
PdfLoadError(code, message) ==
    [kind |-> "PdfLoadError", code |-> code, message |-> message]

Raw(name, code, isError) ==
    [name |-> name, code |-> code, isError |-> isError, message |-> "boom",
     inner |-> "none"]
\* a PdfLoadError that reaches mapPdfJsError as the thrown value
RawLoadError(code) ==
    [name |-> "PdfLoadError", code |-> 0, isError |-> TRUE, message |-> "boom",
     inner |-> code]

NeedPassword == Raw("PasswordException", NEED_PASSWORD, TRUE)
IncorrectPassword == Raw("PasswordException", INCORRECT_PASSWORD, TRUE)
ParseFaults ==
    {Raw("InvalidPDFException", 0, TRUE), Raw("FormatError", 0, TRUE),
     Raw("MissingPDFException", 0, TRUE),
     Raw("UnexpectedResponseException", 0, TRUE),
     Raw("PasswordException", 0, TRUE),
     Raw("Error", 0, TRUE), Raw("thrown-value", 0, FALSE)}
RawErrors ==
    ParseFaults \cup {NeedPassword, IncorrectPassword, RawLoadError("corrupt")}

mapPdfJsError(reason) ==
    IF reason.name = "PdfLoadError" THEN PdfLoadError(reason.inner, reason.message)
    ELSE IF reason.name = "PasswordException" /\ reason.code = NEED_PASSWORD
        THEN PdfLoadError("password-required", "none")
    ELSE IF reason.name = "PasswordException" /\ reason.code = INCORRECT_PASSWORD
        THEN PdfLoadError("password-incorrect", "none")
    ELSE IF reason.name \in {"InvalidPDFException", "FormatError"}
        THEN PdfLoadError("corrupt", "none")
    ELSE IF reason.name = "MissingPDFException"
        THEN PdfLoadError("not-found", "none")
    ELSE IF reason.name = "UnexpectedResponseException"
        THEN PdfLoadError("missing-data", "none")
    ELSE PdfLoadError("unknown", IF reason.isError THEN reason.message ELSE "undefined")

\* const reason = mapped.code === "password-required" || ... ? mapped.code : null
PasswordReasonOfAnyKind(mapped) == mapped.code
PasswordReason(mapped) ==
    IF mapped.code \in {"password-required", "password-incorrect"}
    THEN mapped.code ELSE "null"

(***************************************************************************)
(* Byte buffers.  The source bytes are buffer RetainedId; slice() makes a  *)
(* new buffer.  A buffer that was transferred to the pdf.js worker is      *)
(* detached and has no bytes left.                                         *)
(***************************************************************************)
RetainedId == 1
SourceBytes == <<37, 80, 68, 70>>
BufferIds == 1..(MaxAttempts + 1)
NoBuffer == [bytes |-> <<>>, detached |-> FALSE, allocated |-> FALSE]
Buffer(bytes) == [bytes |-> bytes, detached |-> FALSE, allocated |-> TRUE]

\* retainedData.slice(): the id of the copy
Slice(h, id) == CHOOSE n \in BufferIds : ~h[n].allocated /\ \A m \in 1..(n - 1) : h[m].allocated
WithSlice(h, id) == [h EXCEPT ![Slice(h, id)] = Buffer(h[id].bytes)]

\* getDocument({ data: pdfJsBytes, password }): the buffer passed as data
AttemptBufferShared(retained, copy) == retained
AttemptBuffer(retained, copy) == copy

\* pdf.js may transfer the buffer it is given into its worker
Transfer(h, id, consumed) ==
    IF consumed THEN [h EXCEPT ![id] = [bytes |-> <<>>, detached |-> TRUE, allocated |-> TRUE]]
    ELSE h

(***************************************************************************)
(* What getDocument can answer for the given password.                     *)
(***************************************************************************)
GetDocumentOutcomes(pw) ==
    IF secret.present /\ ~pw.present THEN {[ok |-> FALSE, err |-> NeedPassword]}
    ELSE IF secret.present /\ pw.text # secret.text
        THEN {[ok |-> FALSE, err |-> IncorrectPassword]}
    ELSE {[ok |-> TRUE, err |-> NeedPassword]}
         \cup {[ok |-> FALSE, err |-> e] : e \in ParseFaults}

NoReads == [info |-> "unread", permissions |-> "unread", pageSize |-> "unread"]
NoResult == [returned |-> FALSE, data |-> 0, doc |-> 0]

InitLoad ==
    /\ lpc = "idle"
    /\ entry = "source"
    /\ hasCallback = FALSE
    /\ secret = Absent
    /\ sourcePassword = Absent
    /\ password = Absent
    /\ heap = [n \in BufferIds |-> IF n = RetainedId THEN Buffer(SourceBytes) ELSE NoBuffer]
    /\ parserInput = 0
    /\ handedLog = <<>>
    /\ attempts = 0
    /\ doc = 0
    /\ handles = [n \in 1..MaxAttempts |-> "none"]
    /\ reads = NoReads
    /\ lerror = NoError
    /\ asked = <<>>
    /\ response = Absent
    /\ lresult = NoResult

(***************************************************************************)
(* The top of the for(;;) loop up to the await of loadingTask.promise:     *)
(* doc = null, the bytes are copied, and the copy goes to getDocument.     *)
(***************************************************************************)
StartAttempt(pw, consumed) ==
    LET copy == Slice(heap, RetainedId)
        given == AttemptBuffer(RetainedId, copy)
    IN  /\ password' = pw
        /\ doc' = 0
        /\ heap' = Transfer(WithSlice(heap, RetainedId), given, consumed)
        /\ parserInput' = given
        /\ handedLog' = Append(handedLog, given)
        /\ attempts' = attempts + 1
        /\ reads' = NoReads
        /\ lpc' = "parsing"

(***************************************************************************)
(* The catch block: release the handle, map the error, then either invoke  *)
(* the password callback or throw.                                         *)
(***************************************************************************)
ReleaseKept(h, d) == h
Release(h, d) == IF d # 0 THEN [h EXCEPT ![d] = "destroyed"] ELSE h

Catch(error, d, h) ==
    LET mapped == mapPdfJsError(error)
        reason == PasswordReason(mapped)
    IN  /\ handles' = Release(h, d)
        /\ lerror' = mapped
        /\ IF reason # "null" /\ hasCallback
           THEN /\ lpc' = "awaitingPassword"
                /\ asked' = Append(asked, reason)
           ELSE /\ lpc' = "failed"
                /\ asked' = asked

\* The documents a load can be given: unencrypted or encrypted with a
\* password; a source may carry the password it was last opened with.
Secrets == {Absent, Text(<<"x">>), Text(<<" ", "x">>)}
RecordedPasswords == {Absent, Text(<<"x">>)}

\* loadPdfFromSource(source, options) or loadPdfFromFile(file, options) is
\* called: let password = source.password ?? undefined, then the first attempt
LoadCall ==
    /\ lpc = "idle"
    /\ UNCHANGED notLoad
    /\ \E e \in {"source", "file"}, cb \in BOOLEAN, sec \in Secrets,
          sp \in RecordedPasswords, consumed \in BOOLEAN :
         /\ e = "file" => sp = Absent
         /\ entry' = e
         /\ hasCallback' = cb
         /\ secret' = sec
         /\ sourcePassword' = sp
         /\ StartAttempt(sp, consumed)
    /\ UNCHANGED <<handles, lerror, asked, response, lresult>>

\* loadingTask.promise settles
ParseSettles ==
    /\ lpc = "parsing"
    /\ UNCHANGED notLoad
    /\ \E o \in GetDocumentOutcomes(password) :
         IF o.ok
         THEN /\ doc' = attempts
              /\ handles' = [handles EXCEPT ![attempts] = "open"]
              /\ lpc' = "metadata"
              /\ UNCHANGED <<lerror, asked>>
         ELSE /\ Catch(o.err, doc, handles)
              /\ UNCHANGED doc
    /\ UNCHANGED <<entry, hasCallback, secret, sourcePassword, password, heap,
                   parserInput, handedLog, attempts, reads, response, lresult>>

\* doc.getMetadata() settles; a failure is logged and ignored
ReadMetadata ==
    /\ lpc = "metadata"
    /\ UNCHANGED notLoad
    /\ \E r \in {"read", "failed"} : reads' = [reads EXCEPT !.info = r]
    /\ lpc' = "permissions"
    /\ UNCHANGED <<entry, hasCallback, secret, sourcePassword, password, heap,
                   parserInput, handedLog, attempts, doc, handles, lerror,
                   asked, response, lresult>>

\* doc.getPermissions() settles; a failure is logged and ignored
ReadPermissions ==
    /\ lpc = "permissions"
    /\ UNCHANGED notLoad
    /\ \E r \in {"read", "failed"} : reads' = [reads EXCEPT !.permissions = r]
    /\ lpc' = "pageSize"
    /\ UNCHANGED <<entry, hasCallback, secret, sourcePassword, password, heap,
                   parserInput, handedLog, attempts, doc, handles, lerror,
                   asked, response, lresult>>

(***************************************************************************)
(* doc.getPage(1) settles (a failure is logged and ignored), the metadata  *)
(* record is built and the LoadedPdf is returned.  The catch block makes   *)
(* no assumption about which statement of the try block threw, so the      *)
(* model lets this part throw any error.                                   *)
(***************************************************************************)
FinishAttempt ==
    /\ lpc = "pageSize"
    /\ UNCHANGED notLoad
    /\ \E r \in {"read", "failed"} : reads' = [reads EXCEPT !.pageSize = r]
    /\ \/ /\ lpc' = "success"
          /\ sourcePassword' = IF entry = "source" THEN password ELSE sourcePassword
          /\ lresult' = [returned |-> TRUE, data |-> RetainedId, doc |-> doc]
          /\ UNCHANGED <<handles, lerror, asked>>
       \/ /\ \E e \in RawErrors : Catch(e, doc, handles)
          /\ UNCHANGED <<sourcePassword, lresult>>
    /\ UNCHANGED <<entry, hasCallback, secret, password, heap, parserInput,
                   handedLog, attempts, doc, response>>

\* if (nextPassword && nextPassword.trim().length > 0)
AcceptsPasswordUntrimmed(next) == next.present /\ Len(next.text) > 0
AcceptsPassword(next) == next.present /\ Len(next.text) > 0 /\ Len(Trim(next.text)) > 0

(***************************************************************************)
(* options.requestPassword(reason) resolves with next: a usable password   *)
(* starts the next attempt, anything else throws the mapped error.         *)
(***************************************************************************)
PasswordAnswered ==
    /\ lpc = "awaitingPassword"
    /\ UNCHANGED notLoad
    /\ attempts < MaxAttempts
    /\ \E next \in MaybeStrings :
         /\ response' = next
         /\ IF AcceptsPassword(next)
            THEN \E consumed \in BOOLEAN : StartAttempt(next, consumed)
            ELSE /\ lpc' = "failed"
                 /\ UNCHANGED <<password, heap, parserInput, handedLog,
                                attempts, doc, reads>>
    /\ UNCHANGED <<entry, hasCallback, secret, sourcePassword, handles, lerror,
                   asked, lresult>>

NextLoad ==
    \/ LoadCall
    \/ ParseSettles
    \/ ReadMetadata
    \/ ReadPermissions
    \/ FinishAttempt
    \/ PasswordAnswered

(***************************************************************************)
(* Claims about the loader.                                                *)
(***************************************************************************)
PasswordCodes == {"password-required", "password-incorrect"}
IsBlank(s) == \A i \in 1..Len(s) : s[i] = " "
Running == {"parsing", "metadata", "permissions", "pageSize"}

\* the password callback resolves and the loader resumes
CallbackAnswered == lpc = "awaitingPassword" /\ lpc' # "awaitingPassword"
\* an attempt ends with a password error while a callback is supplied
PasswordFailure ==
    /\ lpc \in Running
    /\ lpc' \notin Running \cup {"success"}
    /\ lerror'.code \in PasswordCodes
    /\ hasCallback
StartsAttemptWith(pw) ==
    lpc' = "parsing" /\ password' = pw /\ attempts' = attempts + 1
EndsWithPasswordError ==
    /\ lpc' = "failed"
    /\ lerror' = lerror
    /\ lerror.code \in PasswordCodes
    /\ attempts' = attempts

C1_AsStated ==
    CallbackAnswered =>
        IF response'.present /\ response'.text # <<>>
        THEN StartsAttemptWith(response') ELSE EndsWithPasswordError

C1_Amended ==
    /\ PasswordFailure => lpc' = "awaitingPassword" /\ attempts' = attempts
    /\ CallbackAnswered =>
        IF response'.present /\ ~IsBlank(response'.text)
        THEN StartsAttemptWith(response') ELSE EndsWithPasswordError

\* C1 (as stated): after a password failure with a callback supplied, a
\* non-empty answer of the callback starts a new attempt with that password,
\* and an answer of nothing ends the load in failure with that password error
\* without a further attempt.
C1_NonEmptyPasswordRetries == [][C1_AsStated]_loadVars

\* C1 (amended): a failed attempt whose error is a password error asks the
\* callback when one was supplied; an answer that is not blank (non-empty
\* after trimming white space) starts a new attempt with exactly that answer
\* as the password; any other answer (nothing, empty, only white space) ends
\* the load in failure with that password error and no further attempt.
C1_NonBlankPasswordRetries == [][C1_Amended]_loadVars

\* two password failures in a row, the first answered with a password, the
\* second with white space only
C1_Witness ==
    /\ lpc = "failed"
    /\ attempts = 2
    /\ Len(asked) = 2
    /\ response = Text(<<" ">>)

\* C2: on every attempt getDocument is given a buffer that is not the
\* retained one and was given on no earlier attempt, holding a copy of the
\* source bytes; the retained buffer keeps its bytes whatever the parser
\* consumes, and it is the data of the returned document.
C2_ParserGetsFreshCopy ==
    /\ \A i \in 1..Len(handedLog) :
         /\ handedLog[i] # RetainedId
         /\ heap[handedLog[i]].allocated
         /\ heap[handedLog[i]].detached \/ heap[handedLog[i]].bytes = SourceBytes
         /\ \A j \in 1..Len(handedLog) : i # j => handedLog[i] # handedLog[j]
    /\ Len(handedLog) = attempts
    /\ heap[RetainedId] = Buffer(SourceBytes)
    /\ lresult.returned => lresult.data = RetainedId

\* three attempts, the parser consumed its input each time, the load succeeded
C2_Witness ==
    /\ lpc = "success"
    /\ attempts = 3
    /\ \A i \in 1..3 : heap[handedLog[i]].detached

\* C3: no handle is open while the password callback is asked, when a new
\* attempt runs its parse, or after the load has failed.
C3_HandleReleasedOnFailure ==
    /\ lpc \in {"awaitingPassword", "failed"} =>
         \A h \in DOMAIN handles : handles[h] # "open"
    /\ lpc = "parsing" => \A h \in DOMAIN handles : handles[h] # "open"
    /\ \A h \in DOMAIN handles : handles[h] = "open" => h = doc

\* two attempts that each failed after their handle was obtained: the first
\* led to the callback and a retry, the second ended the load
C3_Witness ==
    /\ lpc = "failed"
    /\ handles[1] = "destroyed"
    /\ handles[2] = "destroyed"
    /\ Len(asked) = 1

(***************************************************************************)
(* mergeLoadedPdfs(documents).  A page is <<d, k>>: page index k of the    *)
(* d-th input.  pdf-lib is the construction service: create, load,        *)
(* copyPages and save each resolve or reject.                              *)
(***************************************************************************)
MergeDocs == [pageCount : 0..MaxDocPages]
MergeInputs == UNION {[1..n -> MergeDocs] : n \in 0..MaxDocs}
ServiceFaults == {Raw("Error", 0, TRUE), Raw("thrown-value", 0, FALSE)}
NoCause == Raw("none", 0, FALSE)
NoOutput == [created |-> FALSE, pages |-> <<>>]
NoBytes == [returned |-> FALSE, pages |-> <<>>]

\* PDFDocument.load(document.data): the pages of the d-th input
ParsePages(docs, d) == [k \in 1..docs[d].pageCount |-> <<d, k - 1>>]
\* source.getPageIndices()
GetPageIndices(source) == [k \in 1..Len(source) |-> k - 1]
\* output.copyPages(source, indices)
CopyPages(source, indices) == [k \in 1..Len(indices) |-> source[indices[k] + 1]]
\* copiedPages.forEach((page) => output.addPage(page))
AddPagesInFront(out, copied) == [out EXCEPT !.pages = copied \o @]
AddPages(out, copied) == [out EXCEPT !.pages = @ \o copied]

\* if (documents.length < 2)
TooFewToMergeOffByOne(docs) == Len(docs) < 1
TooFewToMerge(docs) == Len(docs) < 2

\* new PdfLoadError("unknown", error instanceof Error ? error.message : undefined)
WrapUnknown(e) == PdfLoadError("unknown", IF e.isError THEN e.message ELSE "undefined")
\* a rejection that reaches the caller as it was thrown
Unwrapped(e) == [kind |-> "raw", code |-> "none", message |-> e.message]

InitMerge ==
    /\ mpc = "idle"
    /\ mdocs = <<>>
    /\ mi = 0
    /\ msource = <<>>
    /\ mout = NoOutput
    /\ mparsed = 0
    /\ mcause = NoCause
    /\ mthrown = NoError
    /\ mbytes = NoBytes

\* the catch block of mergeLoadedPdfs
MergeCatch(e) ==
    /\ mpc' = "failed"
    /\ mcause' = e
    /\ mthrown' = WrapUnknown(e)

\* mergeLoadedPdfs(documents) is called: the length check, then
\* PDFDocument.create() is awaited
MergeCall ==
    /\ mpc = "idle"
    /\ UNCHANGED notMerge
    /\ \E docs \in MergeInputs :
         /\ mdocs' = docs
         /\ IF TooFewToMerge(docs)
            THEN /\ mpc' = "failed"
                 /\ mthrown' = PdfLoadError("unsupported", "Need at least two PDFs to merge.")
            ELSE /\ mpc' = "creating"
                 /\ UNCHANGED mthrown
    /\ UNCHANGED <<mi, msource, mout, mparsed, mcause, mbytes>>

\* PDFDocument.create() settles; the loop starts and loads the first input
MergeCreated ==
    /\ mpc = "creating"
    /\ UNCHANGED notMerge
    /\ \/ /\ mout' = [created |-> TRUE, pages |-> <<>>]
          /\ mi' = 1
          /\ mparsed' = mparsed + 1
          /\ mpc' = "loading"
          /\ UNCHANGED <<mcause, mthrown>>
       \/ /\ \E e \in ServiceFaults : MergeCatch(e)
          /\ UNCHANGED <<mout, mi, mparsed>>
    /\ UNCHANGED <<mdocs, msource, mbytes>>

\* PDFDocument.load(document.data) settles; copyPages is called
MergeLoaded ==
    /\ mpc = "loading"
    /\ UNCHANGED notMerge
    /\ \/ /\ msource' = ParsePages(mdocs, mi)
          /\ mpc' = "copying"
          /\ UNCHANGED <<mcause, mthrown>>
       \/ /\ \E e \in ServiceFaults : MergeCatch(e)
          /\ UNCHANGED msource
    /\ UNCHANGED <<mdocs, mi, mout, mparsed, mbytes>>

\* copyPages settles; the pages are added; the loop goes to the next input
\* or, after the last one, output.save() is returned
MergeCopied ==
    /\ mpc = "copying"
    /\ UNCHANGED notMerge
    /\ \/ /\ mout' = AddPages(mout, CopyPages(msource, GetPageIndices(msource)))
          /\ IF mi < Len(mdocs)
             THEN /\ mi' = mi + 1
                  /\ mparsed' = mparsed + 1
                  /\ mpc' = "loading"
             ELSE /\ mpc' = "saving"
                  /\ UNCHANGED <<mi, mparsed>>
          /\ UNCHANGED <<mcause, mthrown>>
       \/ /\ \E e \in ServiceFaults : MergeCatch(e)
          /\ UNCHANGED <<mout, mi, mparsed>>
    /\ UNCHANGED <<mdocs, msource, mbytes>>

(***************************************************************************)
(* The promise of output.save() settles.  It was returned without await,   *)
(* so the function had left its try block: the promise of mergeLoadedPdfs  *)
(* adopts the outcome, and a rejection is not seen by the catch block.     *)
(***************************************************************************)
MergeSaved ==
    /\ mpc = "saving"
    /\ UNCHANGED notMerge
    /\ \/ /\ mpc' = "done"
          /\ mbytes' = [returned |-> TRUE, pages |-> mout.pages]
          /\ UNCHANGED <<mcause, mthrown>>
       \/ /\ \E e \in ServiceFaults :
               /\ mpc' = "failed"
               /\ mcause' = e
               /\ mthrown' = Unwrapped(e)
          /\ UNCHANGED mbytes
    /\ UNCHANGED <<mdocs, mi, msource, mout, mparsed>>

NextMerge ==
    \/ MergeCall
    \/ MergeCreated
    \/ MergeLoaded
    \/ MergeCopied
    \/ MergeSaved

(***************************************************************************)
(* Claims about merge.                                                     *)
(***************************************************************************)
\* C4: merge called with fewer than two documents fails with Unsupported,
\* with no input parsed and no output document created.
C4_MergeNeedsTwo ==
    mpc # "idle" /\ Len(mdocs) < 2 =>
        /\ mpc = "failed"
        /\ mthrown.kind = "PdfLoadError"
        /\ mthrown.code = "unsupported"
        /\ mparsed = 0
        /\ ~mout.created
        /\ ~mbytes.returned

\* merge was called with exactly one document
C4_Witness == mpc = "failed" /\ Len(mdocs) = 1 /\ mthrown.code = "unsupported"

RECURSIVE Concatenation(_, _)
Concatenation(docs, d) ==
    IF d > Len(docs) THEN <<>>
    ELSE [k \in 1..docs[d].pageCount |-> <<d, k - 1>>] \o Concatenation(docs, d + 1)

RECURSIVE SumPageCounts(_)
SumPageCounts(docs) ==
    IF docs = <<>> THEN 0 ELSE Head(docs).pageCount + SumPageCounts(Tail(docs))

\* C5: for two or more documents the pages of the merged output are all pages
\* of input 1 in order, then all pages of input 2, and so on; the page count
\* is the sum of the inputs' page counts.
C5_MergeConcatenates ==
    mpc = "done" =>
        /\ Len(mdocs) >= 2
        /\ mbytes.returned
        /\ mbytes.pages = Concatenation(mdocs, 1)
        /\ Len(mbytes.pages) = SumPageCounts(mdocs)

\* three inputs of 2, 1 and 2 pages were merged
C5_Witness ==
    /\ mpc = "done"
    /\ Len(mdocs) = 3
    /\ mdocs[1].pageCount = 2 /\ mdocs[2].pageCount = 1 /\ mdocs[3].pageCount = 2
    /\ Len(mbytes.pages) = 5

\* C6: a merge of two or more documents that fails (parsing an input,
\* copying its pages or serializing the output) gives the caller an Unknown
\* error carrying the underlying message, and no output bytes.
C6_MergeFailureIsUnknown ==
    mpc = "failed" /\ Len(mdocs) >= 2 =>
        /\ mthrown.kind = "PdfLoadError"
        /\ mthrown.code = "unknown"
        /\ mcause.isError => mthrown.message = mcause.message
        /\ ~mbytes.returned

(***************************************************************************)
(* extractPagesFromLoadedPdf(pdf, pageNumbers).  A page number is a        *)
(* JavaScript number; the model counts in halves, so that h stands for     *)
(* h / 2 and 3 is the page number 1.5.                                     *)
(***************************************************************************)
PageNumbers == (0 - 2)..(2 * MaxSplitPages + 3)
Selections == UNION {[1..n -> PageNumbers] : n \in 0..MaxSelection}

\* Math.trunc(page): rounds towards zero
MathTrunc(h) == IF h >= 0 THEN h \div 2 ELSE 0 - ((0 - h) \div 2)
\* pageNumbers.map((page) => Math.trunc(page))
RECURSIVE TruncAll(_)
TruncAll(numbers) ==
    IF numbers = <<>> THEN <<>>
    ELSE <<MathTrunc(Head(numbers))>> \o TruncAll(Tail(numbers))
\* .filter((page) => page >= 1 && page <= pageCount)
RECURSIVE InRange(_, _)
InRange(pages, pageCount) ==
    IF pages = <<>> THEN <<>>
    ELSE IF Head(pages) >= 1 /\ Head(pages) <= pageCount
        THEN <<Head(pages)>> \o InRange(Tail(pages), pageCount)
        ELSE InRange(Tail(pages), pageCount)
\* Array.from(new Set(...)): the first occurrence of each value, in order
RECURSIVE Unique(_, _)
Unique(pages, seen) ==
    IF pages = <<>> THEN <<>>
    ELSE IF Head(pages) \in seen THEN Unique(Tail(pages), seen)
    ELSE <<Head(pages)>> \o Unique(Tail(pages), seen \cup {Head(pages)})
\* .sort((a, b) => a - b)
RECURSIVE Insert(_, _)
Insert(p, sorted) ==
    IF sorted = <<>> THEN <<p>>
    ELSE IF p - Head(sorted) <= 0 THEN <<p>> \o sorted
    ELSE <<Head(sorted)>> \o Insert(p, Tail(sorted))
RECURSIVE SortAscending(_)
SortUnsorted(pages) == pages
SortAscending(pages) ==
    IF pages = <<>> THEN <<>>
    ELSE Insert(Head(pages), SortAscending(Tail(pages)))

\* const sanitized = ...
Sanitized(numbers, pageCount) ==
    SortAscending(Unique(InRange(TruncAll(numbers), pageCount), {}))
\* if (sanitized.length === 0) throw
NothingSelectedIgnored(sanitized) == FALSE
NothingSelected(sanitized) == Len(sanitized) = 0

\* PDFDocument.load(pdf.data): the pages of the one source document
SourcePages(pageCount) == ParsePages(<<[pageCount |-> pageCount]>>, 1)
\* selection.map((page) => page - 1)
ZeroBased(selection) == [k \in 1..Len(selection) |-> selection[k] - 1]

InitExtract ==
    /\ epc = "idle"
    /\ eargs = [pageCount |-> 0, pageNumbers |-> <<>>]
    /\ eselection = <<>>
    /\ esource = <<>>
    /\ eout = NoOutput
    /\ eparsed = 0
    /\ ecause = NoCause
    /\ ethrown = NoError
    /\ ebytes = NoBytes

\* the catch blocks of loadSourceDocument and extractPagesFromLoadedPdf
ExtractCatch(e) ==
    /\ epc' = "failed"
    /\ ecause' = e
    /\ ethrown' = WrapUnknown(e)

\* extractPagesFromLoadedPdf(pdf, pageNumbers) is called: normalizePages,
\* then loadSourceDocument(pdf) is awaited
ExtractCall ==
    /\ epc = "idle"
    /\ UNCHANGED notExtract
    /\ \E pageCount \in 0..MaxSplitPages, numbers \in Selections :
         LET sanitized == Sanitized(numbers, pageCount)
         IN  /\ eargs' = [pageCount |-> pageCount, pageNumbers |-> numbers]
             /\ IF NothingSelected(sanitized)
                THEN /\ epc' = "failed"
                     /\ ethrown' = PdfLoadError("unsupported",
                            "Select at least one valid page before splitting.")
                     /\ UNCHANGED <<eselection, eparsed>>
                ELSE /\ eselection' = sanitized
                     /\ eparsed' = eparsed + 1
                     /\ epc' = "loading"
                     /\ UNCHANGED ethrown
    /\ UNCHANGED <<esource, eout, ecause, ebytes>>

\* PDFDocument.load(pdf.data) settles; PDFDocument.create() is awaited
ExtractLoaded ==
    /\ epc = "loading"
    /\ UNCHANGED notExtract
    /\ \/ /\ esource' = SourcePages(eargs.pageCount)
          /\ epc' = "creating"
          /\ UNCHANGED <<ecause, ethrown>>
       \/ /\ \E e \in ServiceFaults : ExtractCatch(e)
          /\ UNCHANGED esource
    /\ UNCHANGED <<eargs, eselection, eout, eparsed, ebytes>>

\* PDFDocument.create() settles; output.copyPages is awaited
ExtractCreated ==
    /\ epc = "creating"
    /\ UNCHANGED notExtract
    /\ \/ /\ eout' = [created |-> TRUE, pages |-> <<>>]
          /\ epc' = "copying"
          /\ UNCHANGED <<ecause, ethrown>>
       \/ /\ \E e \in ServiceFaults : ExtractCatch(e)
          /\ UNCHANGED eout
    /\ UNCHANGED <<eargs, eselection, esource, eparsed, ebytes>>

\* copyPages settles; the pages are added; output.save() is awaited
ExtractCopied ==
    /\ epc = "copying"
    /\ UNCHANGED notExtract
    /\ \/ /\ eout' = AddPages(eout, CopyPages(esource, ZeroBased(eselection)))
          /\ epc' = "saving"
          /\ UNCHANGED <<ecause, ethrown>>
       \/ /\ \E e \in ServiceFaults : ExtractCatch(e)
          /\ UNCHANGED eout
    /\ UNCHANGED <<eargs, eselection, esource, eparsed, ebytes>>

\* return await output.save(): a rejection is caught
ExtractSaved ==
    /\ epc = "saving"
    /\ UNCHANGED notExtract
    /\ \/ /\ epc' = "done"
          /\ ebytes' = [returned |-> TRUE, pages |-> eout.pages]
          /\ UNCHANGED <<ecause, ethrown>>
       \/ /\ \E e \in ServiceFaults : ExtractCatch(e)
          /\ UNCHANGED ebytes
    /\ UNCHANGED <<eargs, eselection, esource, eout, eparsed>>

NextExtract ==
    \/ ExtractCall
    \/ ExtractLoaded
    \/ ExtractCreated
    \/ ExtractCopied
    \/ ExtractSaved

(***************************************************************************)
(* Claims about extract.                                                   *)
(***************************************************************************)
\* the one-based page numbers p in 1..pageCount that some entry truncates to:
\* the entries p and p + 1/2
SelectedSet(args) ==
    {p \in 1..args.pageCount :
        \E i \in 1..Len(args.pageNumbers) :
            args.pageNumbers[i] \in {2 * p, 2 * p + 1}}
OriginalNumber(page) == page[2] + 1

\* C7: the output of extract holds exactly the pages whose one-based numbers
\* are the truncated in-range entries of pageNumbers, each once, in ascending
\* order, whatever the order, duplicates and out-of-range entries of the input.
C7_ExtractSortedUnique ==
    epc = "done" =>
        /\ ebytes.returned
        /\ Len(ebytes.pages) = Cardinality(SelectedSet(eargs))
        /\ \A i \in 1..Len(ebytes.pages) :
             OriginalNumber(ebytes.pages[i]) \in SelectedSet(eargs)
        /\ \A i \in 1..(Len(ebytes.pages) - 1) :
             OriginalNumber(ebytes.pages[i]) < OriginalNumber(ebytes.pages[i + 1])

\* extract(doc of 3 pages, [3, 1.5, 1.5]) gave original pages 1 then 3
C7_Witness ==
    /\ epc = "done"
    /\ eargs = [pageCount |-> 3, pageNumbers |-> <<6, 3, 3>>]
    /\ ebytes.pages = <<<<1, 0>>, <<1, 2>>>>

\* C8: when no entry of pageNumbers truncates to a page in 1..pageCount,
\* extract fails with Unsupported, with the source not parsed and no output.
C8_EmptySelectionUnsupported ==
    epc # "idle" /\ SelectedSet(eargs) = {} =>
        /\ epc = "failed"
        /\ ethrown.kind = "PdfLoadError"
        /\ ethrown.code = "unsupported"
        /\ eparsed = 0
        /\ ~eout.created
        /\ ~ebytes.returned

\* extract was called with entries that are all out of range
C8_Witness ==
    /\ epc = "failed"
    /\ eargs.pageCount = 2
    /\ eargs.pageNumbers = <<0, 6, 1>>
    /\ ethrown.code = "unsupported"

(***************************************************************************)
(* splitPdfByChunkSize(pdf, chunkSize).  chunkSize is a JavaScript number: *)
(* finite (counted in halves, h stands for h / 2), NaN or an infinity.     *)
(* start, end, startPage and endPage are counted in halves as well, so 2   *)
(* is page 1 and 3 is the value 1.5.                                       *)
(***************************************************************************)
Finite(h) == [kind |-> "finite", h |-> h]
NotFinite == {[kind |-> k, h |-> 0] : k \in {"NaN", "Infinity", "-Infinity"}}
ChunkSizes == {Finite(h) : h \in (0 - 2)..(2 * MaxChunkPages + 2)} \cup NotFinite

\* if (!Number.isFinite(chunkSize) || chunkSize < 1)
ChunkSizeRejectedIfNotPositive(size) == size.kind # "finite" \/ size.h <= 0
ChunkSizeRejected(size) == size.kind # "finite" \/ size.h < 2

Min(a, b) == IF a <= b THEN a ELSE b
\* const end = Math.min(pdf.pageCount, start + chunkSize)
ChunkEnd(pageCount, start, size) == Min(2 * pageCount, start + size.h)
\* Array.from({ length: end - start }, (_, offset) => start + offset):
\* the length is truncated to an integer
CopyingIndices(start, end) ==
    [k \in 1..((end - start) \div 2) |-> start + 2 * (k - 1)]
\* pdf-lib copies source.getPages()[index]: there is such a page only for an
\* integer index
Copyable(source, indices) ==
    \A k \in 1..Len(indices) :
        indices[k] % 2 = 0 /\ indices[k] \div 2 \in 0..(Len(source) - 1)
WholeIndices(indices) == [k \in 1..Len(indices) |-> indices[k] \div 2]
\* startPage: start + 1
StartPageZeroBased(start) == start
StartPage(start) == start + 2
\* chunks.push({ index, startPage: start + 1, endPage: end, bytes })
ChunkRecord(index, start, end, pages) ==
    [index |-> index, startPage |-> StartPage(start), endPage |-> end,
     pages |-> pages]

InitChunk ==
    /\ cpc = "idle"
    /\ cargs = [pageCount |-> 0, chunkSize |-> Finite(2)]
    /\ csource = <<>>
    /\ cstart = 0
    /\ cindex = 0
    /\ cdoc = NoOutput
    /\ cchunks = <<>>
    /\ cparsed = 0
    /\ ccause = NoCause
    /\ cthrown = NoError
    /\ creturned = FALSE

\* the catch blocks of loadSourceDocument and splitPdfByChunkSize
ChunkCatch(e) ==
    /\ cpc' = "failed"
    /\ ccause' = e
    /\ cthrown' = WrapUnknown(e)

\* the loop test start < pdf.pageCount: PDFDocument.create() is awaited for
\* the next chunk, or chunks is returned
ChunkLoopTest(start) ==
    IF start < 2 * cargs.pageCount
    THEN cpc' = "creating" /\ creturned' = FALSE
    ELSE cpc' = "done" /\ creturned' = TRUE

\* splitPdfByChunkSize(pdf, chunkSize) is called: the size check, then
\* loadSourceDocument(pdf) is awaited
ChunkCall ==
    /\ cpc = "idle"
    /\ UNCHANGED notChunk
    /\ \E pageCount \in 0..MaxChunkPages, size \in ChunkSizes :
         /\ cargs' = [pageCount |-> pageCount, chunkSize |-> size]
         /\ IF ChunkSizeRejected(size)
            THEN /\ cpc' = "failed"
                 /\ cthrown' = PdfLoadError("unsupported",
                        "Chunk size must be at least one page.")
                 /\ UNCHANGED cparsed
            ELSE /\ cparsed' = cparsed + 1
                 /\ cpc' = "loading"
                 /\ UNCHANGED cthrown
    /\ UNCHANGED <<csource, cstart, cindex, cdoc, cchunks, ccause, creturned>>

\* PDFDocument.load(pdf.data) settles; the loop starts with start = 0
ChunkLoaded ==
    /\ cpc = "loading"
    /\ UNCHANGED notChunk
    /\ \/ /\ csource' = SourcePages(cargs.pageCount)
          /\ cstart' = 0
          /\ cindex' = 0
          /\ ChunkLoopTest(0)
          /\ UNCHANGED <<ccause, cthrown>>
       \/ /\ \E e \in ServiceFaults : ChunkCatch(e)
          /\ UNCHANGED <<csource, cstart, cindex, creturned>>
    /\ UNCHANGED <<cargs, cdoc, cchunks, cparsed>>

\* PDFDocument.create() settles; chunkDoc.copyPages is awaited
ChunkCreated ==
    /\ cpc = "creating"
    /\ UNCHANGED notChunk
    /\ \/ /\ cdoc' = [created |-> TRUE, pages |-> <<>>]
          /\ cpc' = "copying"
          /\ UNCHANGED <<ccause, cthrown>>
       \/ /\ \E e \in ServiceFaults : ChunkCatch(e)
          /\ UNCHANGED cdoc
    /\ UNCHANGED <<cargs, csource, cstart, cindex, cchunks, cparsed, creturned>>

\* copyPages settles; the pages are added; chunkDoc.save() is awaited
ChunkCopied ==
    /\ cpc = "copying"
    /\ UNCHANGED notChunk
    /\ LET end == ChunkEnd(cargs.pageCount, cstart, cargs.chunkSize)
           indices == CopyingIndices(cstart, end)
       IN  \/ /\ Copyable(csource, indices)
              /\ cdoc' = AddPages(cdoc, CopyPages(csource, WholeIndices(indices)))
              /\ cpc' = "saving"
              /\ UNCHANGED <<ccause, cthrown>>
           \/ /\ \E e \in ServiceFaults :
                    /\ ~Copyable(csource, indices) => e.isError
                    /\ ChunkCatch(e)
              /\ UNCHANGED cdoc
    /\ UNCHANGED <<cargs, csource, cstart, cindex, cchunks, cparsed, creturned>>

\* chunkDoc.save() settles; the chunk is pushed, index += 1, start += chunkSize
\* and the loop test is made
ChunkSaved ==
    /\ cpc = "saving"
    /\ UNCHANGED notChunk
    /\ \/ /\ cchunks' = Append(cchunks,
                 ChunkRecord(cindex, cstart,
                     ChunkEnd(cargs.pageCount, cstart, cargs.chunkSize), cdoc.pages))
          /\ cindex' = cindex + 1
          /\ cstart' = cstart + cargs.chunkSize.h
          /\ ChunkLoopTest(cstart + cargs.chunkSize.h)
          /\ UNCHANGED <<ccause, cthrown>>
       \/ /\ \E e \in ServiceFaults : ChunkCatch(e)
          /\ UNCHANGED <<cchunks, cindex, cstart, creturned>>
    /\ UNCHANGED <<cargs, csource, cdoc, cparsed>>

NextChunk ==
    \/ ChunkCall
    \/ ChunkLoaded
    \/ ChunkCreated
    \/ ChunkCopied
    \/ ChunkSaved

(***************************************************************************)
(* Claims about chunk.                                                     *)
(***************************************************************************)
IntegerSize == cargs.chunkSize.kind = "finite" /\ cargs.chunkSize.h % 2 = 0
SizeInPages == cargs.chunkSize.h \div 2
CeilDiv(a, b) == (a + b - 1) \div b
PageRange(first, last) == [j \in 1..(last - first + 1) |-> <<1, first + j - 2>>]

\* C9: for an integer size >= 1 chunk returns ceil(pageCount / size) chunks;
\* chunk k (zero-based) has index k, startPage k * size + 1, endPage
\* min(pageCount, (k + 1) * size) and holds exactly those pages in order.
C9_ChunkWindows ==
    cpc = "done" /\ IntegerSize =>
        /\ SizeInPages >= 1
        /\ creturned
        /\ Len(cchunks) = CeilDiv(cargs.pageCount, SizeInPages)
        /\ \A n \in 1..Len(cchunks) :
             LET k == n - 1
                 first == k * SizeInPages + 1
                 last == Min(cargs.pageCount, (k + 1) * SizeInPages)
             IN  /\ cchunks[n].index = k
                 /\ cchunks[n].startPage = 2 * first
                 /\ cchunks[n].endPage = 2 * last
                 /\ cchunks[n].pages = PageRange(first, last)

\* chunk(doc of 5 pages, 2) returned the windows (1,2), (3,4), (5,5)
C9_Witness ==
    /\ cpc = "done"
    /\ cargs = [pageCount |-> 5, chunkSize |-> Finite(4)]
    /\ Len(cchunks) = 3
    /\ cchunks[3].startPage = 10 /\ cchunks[3].endPage = 10

\* C10: chunk called with a size below 1 fails with Unsupported, with the
\* source not parsed and no chunk produced or returned.
C10_ChunkSizeBelowOne ==
    /\ cpc # "idle"
    /\ \/ cargs.chunkSize.kind = "finite" /\ cargs.chunkSize.h < 2
       \/ cargs.chunkSize.kind = "-Infinity"
    => /\ cpc = "failed"
       /\ cthrown.kind = "PdfLoadError"
       /\ cthrown.code = "unsupported"
       /\ cparsed = 0
       /\ cchunks = <<>>
       /\ ~creturned

\* chunk(doc, 0) was called on a document with pages
C10_Witness ==
    /\ cpc = "failed"
    /\ cargs.pageCount = 2
    /\ cargs.chunkSize = Finite(0)
    /\ cthrown.code = "unsupported"

\* C11: chunk only works with a positive integer size: called with a size that
\* is not an integer it fails with Unsupported, parses nothing and returns
\* nothing, so every returned chunk has a whole startPage and endPage and was
\* copied from whole page indices.
C11_ChunkSizeIsInteger ==
    /\ cpc # "idle" /\ ~IntegerSize =>
          /\ cpc = "failed"
          /\ cthrown.kind = "PdfLoadError"
          /\ cthrown.code = "unsupported"
          /\ cparsed = 0
          /\ cchunks = <<>>
    /\ \A n \in 1..Len(cchunks) :
          /\ cchunks[n].startPage % 2 = 0
          /\ cchunks[n].endPage % 2 = 0


(***************************************************************************)
(* applyPageEdits (src/lib/pdfEdit): the page descriptors of the editor    *)
(* and the export of an edited document.  A descriptor is                  *)
(* [id, originalIndex, rotation, isDeleted]; the id of a page is written   *)
(* as the number N of "<pdfId>-page-N".  A page of a document carries the  *)
(* rotation angle stored in it and the number of setRotation calls made on *)
(* it; source page k is stored with the angle SourceAngle(k).              *)
(***************************************************************************)
\* the JavaScript % operator: the remainder has the sign of the dividend
JsRem(a, b) == IF a >= 0 THEN a % b ELSE 0 - ((0 - a) % b)

\* const clampRotation = (value) => { ... }
clampRotationOnce(value) ==
    LET normalized == JsRem(value, 360)
    IN  IF normalized = 360 THEN 0 ELSE normalized
clampRotation(value) ==
    LET normalized == JsRem(JsRem(value, 360) + 360, 360)
    IN  IF normalized = 360 THEN 0 ELSE normalized

\* buildEditablePageId(pdfId, pageIndex)
buildEditablePageId(pageIndex) == pageIndex + 1
\* buildEditablePages(pdf)
buildEditablePages(pageCount) ==
    [k \in 1..pageCount |->
        [id |-> buildEditablePageId(k - 1), originalIndex |-> k - 1,
         rotation |-> 0, isDeleted |-> FALSE]]

\* the rotations a caller of applyPageEdits passes, in quarter turns
QuarterTurns == {0 - 5, 0 - 1, 0, 1, 4, 5}
Descriptors(pageCount) ==
    {[id |-> buildEditablePageId(i), originalIndex |-> i,
      rotation |-> 90 * t, isDeleted |-> del] :
        i \in 0..(pageCount - 1), t \in QuarterTurns, del \in BOOLEAN}
DescriptorLists(pageCount) ==
    UNION {[1..k -> Descriptors(pageCount)] : k \in 0..MaxApplyLen}

\* pages.filter((page) => !page.isDeleted)
keptPagesUnfiltered(list) == list
keptPages(list) == SelectSeq(list, LAMBDA page : ~page.isDeleted)
\* if (keptPages.length === 0)
NoPagesKeptIgnored(kept) == FALSE
NoPagesKept(kept) == Len(kept) = 0

\* the rotation angle stored in page index of the source document
SourceAngle(index) == 90 * (index % 2)
\* PDFDocument.load(pdf.data)
EditSource(pageCount) ==
    [k \in 1..pageCount |->
        [page |-> <<1, k - 1>>, angle |-> SourceAngle(k - 1), setRotation |-> 0]]
\* page.setRotation(degrees(rotation))
SetRotation(page, rotation) ==
    [page EXCEPT !.angle = rotation, !.setRotation = @ + 1]
\* const rotation = clampRotation(pageState.rotation);
\* if (rotation !== 0) { page.setRotation(degrees(rotation)); }
Rotated(page, pageState) ==
    LET rotation == clampRotation(pageState.rotation)
    IN  IF rotation # 0 THEN SetRotation(page, rotation) ELSE page

InitApply ==
    /\ apc = "idle"
    /\ aargs = [pageCount |-> 0, pages |-> <<>>]
    /\ akept = <<>>
    /\ ak = 0
    /\ asource = <<>>
    /\ aout = NoOutput
    /\ aparsed = 0
    /\ acause = NoCause
    /\ athrown = NoError
    /\ abytes = NoBytes

\* the catch block of applyPageEdits
ApplyCatch(e) ==
    /\ apc' = "failed"
    /\ acause' = e
    /\ athrown' = WrapUnknown(e)

\* applyPageEdits(pdf, pages) up to its first await: the filter, the check of
\* the kept pages, then PDFDocument.load(pdf.data) is awaited
ApplyEnter(pageCount, list) ==
    /\ aargs' = [pageCount |-> pageCount, pages |-> list]
    /\ akept' = keptPages(list)
    /\ IF NoPagesKept(keptPages(list))
       THEN /\ apc' = "failed"
            /\ athrown' = PdfLoadError("unsupported",
                   "Select at least one page before exporting.")
            /\ UNCHANGED aparsed
       ELSE /\ aparsed' = aparsed + 1
            /\ apc' = "loading"
            /\ UNCHANGED athrown
    /\ UNCHANGED <<ak, asource, aout, acause, abytes>>

\* applyPageEdits(pdf, pages) is called
ApplyCall ==
    /\ apc = "idle"
    /\ UNCHANGED notApply
    /\ \E pageCount \in 0..MaxApplyPages :
         \E list \in DescriptorLists(pageCount) : ApplyEnter(pageCount, list)

\* PDFDocument.load(pdf.data) settles; PDFDocument.create() is awaited
ApplyLoaded ==
    /\ apc = "loading"
    /\ UNCHANGED notApply
    /\ \/ /\ asource' = EditSource(aargs.pageCount)
          /\ apc' = "creating"
          /\ UNCHANGED <<acause, athrown>>
       \/ /\ \E e \in ServiceFaults : ApplyCatch(e)
          /\ UNCHANGED asource
    /\ UNCHANGED <<aargs, akept, ak, aout, aparsed, abytes>>

\* PDFDocument.create() settles; the loop starts: keptPages is not empty, so
\* output.copyPages(source, [pageState.originalIndex]) is awaited
ApplyCreated ==
    /\ apc = "creating"
    /\ UNCHANGED notApply
    /\ \/ /\ aout' = [created |-> TRUE, pages |-> <<>>]
          /\ ak' = 1
          /\ apc' = "copying"
          /\ UNCHANGED <<acause, athrown>>
       \/ /\ \E e \in ServiceFaults : ApplyCatch(e)
          /\ UNCHANGED <<aout, ak>>
    /\ UNCHANGED <<aargs, akept, asource, aparsed, abytes>>

\* copyPages settles with one page (never with none, so the continue branch is
\* not taken); the page is rotated and added; the next copy is awaited or
\* output.save() is called and its promise returned
ApplyCopied ==
    /\ apc = "copying"
    /\ UNCHANGED notApply
    /\ LET pageState == akept[ak]
           indices == <<pageState.originalIndex>>
           inRange == pageState.originalIndex \in 0..(Len(asource) - 1)
       IN  \/ /\ inRange
              /\ aout' = AddPages(aout,
                     <<Rotated(CopyPages(asource, indices)[1], pageState)>>)
              /\ IF ak < Len(akept)
                 THEN ak' = ak + 1 /\ apc' = "copying"
                 ELSE ak' = ak /\ apc' = "saving"
              /\ UNCHANGED <<acause, athrown>>
           \/ /\ \E e \in ServiceFaults :
                    /\ ~inRange => e.isError
                    /\ ApplyCatch(e)
              /\ UNCHANGED <<aout, ak>>
    /\ UNCHANGED <<aargs, akept, asource, aparsed, abytes>>

\* the promise of output.save() settles: it was returned without await, so a
\* rejection reaches the caller as it is
ApplySaved ==
    /\ apc = "saving"
    /\ UNCHANGED notApply
    /\ \/ /\ apc' = "done"
          /\ abytes' = [returned |-> TRUE, pages |-> aout.pages]
          /\ UNCHANGED <<acause, athrown>>
       \/ /\ \E e \in ServiceFaults :
               /\ apc' = "failed"
               /\ acause' = e
               /\ athrown' = Unwrapped(e)
          /\ UNCHANGED abytes
    /\ UNCHANGED <<aargs, akept, ak, asource, aout, aparsed>>

NextApply ==
    \/ ApplyCall
    \/ ApplyLoaded
    \/ ApplyCreated
    \/ ApplyCopied
    \/ ApplySaved

(***************************************************************************)
(* Claims about apply.                                                     *)
(***************************************************************************)
\* the positions of the caller's list that hold a non-deleted descriptor
NonDeleted(list) == {k \in 1..Len(list) : ~list[k].isDeleted}
\* the position of the i-th non-deleted descriptor
NthNonDeleted(list, i) ==
    CHOOSE k \in NonDeleted(list) :
        Cardinality({j \in NonDeleted(list) : j <= k}) = i

\* C12: apply called with a list that holds no non-deleted descriptor (all
\* deleted, or empty) fails with Unsupported; the source is not parsed and no
\* output document is created.
C12_NoKeptPagesUnsupported ==
    apc # "idle" /\ NonDeleted(aargs.pages) = {} =>
        /\ apc = "failed"
        /\ athrown.kind = "PdfLoadError"
        /\ athrown.code = "unsupported"
        /\ aparsed = 0
        /\ asource = <<>>
        /\ ~aout.created
        /\ ~abytes.returned

\* apply was called on a document of two pages with both descriptors deleted
C12_Witness ==
    /\ apc = "failed"
    /\ aargs.pageCount = 2
    /\ Len(aargs.pages) = 2
    /\ aargs.pages[1].isDeleted /\ aargs.pages[2].isDeleted
    /\ athrown.code = "unsupported"

\* C13: on success the output of apply has one page per non-deleted
\* descriptor, and its i-th page is a copy of the source page at the
\* originalIndex of the i-th non-deleted descriptor of the caller's list.
C13_ApplyKeepsCallerOrder ==
    apc = "done" =>
        /\ abytes.returned
        /\ Len(abytes.pages) = Cardinality(NonDeleted(aargs.pages))
        /\ \A i \in 1..Len(abytes.pages) :
             abytes.pages[i].page =
                 <<1, aargs.pages[NthNonDeleted(aargs.pages, i)].originalIndex>>

\* apply returned the second page of the source alone, for a list that names
\* the first page as deleted and then the second page
C13_Witness ==
    /\ apc = "done"
    /\ Len(aargs.pages) = 2
    /\ aargs.pages[1].originalIndex = 0 /\ aargs.pages[1].isDeleted
    /\ aargs.pages[2].originalIndex = 1 /\ ~aargs.pages[2].isDeleted
    /\ Len(abytes.pages) = 1
    /\ abytes.pages[1].page = <<1, 1>>

(***************************************************************************)
(* PageEditorPage: the edit session.  An event handler runs to completion  *)
(* and React applies its state updates in the order they were queued, so a *)
(* handler is one action.  The handlers build new lists and new page       *)
(* objects and never write to an existing one, so a list is a value.       *)
(***************************************************************************)
HISTORY_LIMIT == 20
NoId == 0                \* null, or the empty string getData returns
ForeignId == 0 - 1       \* dragged text that is the id of no page

\* snapshotPages(pages)
snapshotPages(list) ==
    [k \in 1..Len(list) |->
        [id |-> list[k].id, originalIndex |-> list[k].originalIndex,
         rotation |-> list[k].rotation, isDeleted |-> list[k].isDeleted]]

\* pagesChanged(a, b)
pagesChangedAlways(a, b) == TRUE
pagesChanged(a, b) ==
    \/ Len(a) # Len(b)
    \/ \E index \in 1..Len(a) :
          \/ a[index].id # b[index].id
          \/ a[index].originalIndex # b[index].originalIndex
          \/ a[index].rotation # b[index].rotation
          \/ a[index].isDeleted # b[index].isDeleted

\* [snapshotPages(current), ...prev].slice(0, HISTORY_LIMIT)
PushHistoryUnbounded(prev, current) == <<snapshotPages(current)>> \o prev
PushHistory(prev, current) ==
    LET grown == <<snapshotPages(current)>> \o prev
    IN  SubSeq(grown, 1, Min(Len(grown), HISTORY_LIMIT))

\* next.findIndex((page) => page.id === id), zero-based, -1 if there is none
FindIndex(list, id) ==
    IF \E k \in 1..Len(list) : list[k].id = id
    THEN (CHOOSE k \in 1..Len(list) :
              list[k].id = id /\ \A j \in 1..(k - 1) : list[j].id # id) - 1
    ELSE 0 - 1
\* the list after list.splice(index, 1)
SpliceOut(list, index) ==
    SubSeq(list, 1, index) \o SubSeq(list, index + 2, Len(list))
\* the list after list.splice(index, 0, item): an index beyond the end is the end
SpliceIn(list, index, item) ==
    LET at == Min(index, Len(list))
    IN  SubSeq(list, 1, at) \o <<item>> \o SubSeq(list, at + 1, Len(list))

\* the updater of handleRotate
RotateUpdater(current, pageId, delta) ==
    [k \in 1..Len(current) |->
        IF current[k].id = pageId
        THEN [current[k] EXCEPT !.rotation = @ + delta]
        ELSE current[k]]
\* the updater of handleToggleDelete
ToggleDeleteUpdater(current, pageId) ==
    [k \in 1..Len(current) |->
        IF current[k].id = pageId
        THEN [current[k] EXCEPT !.isDeleted = ~@]
        ELSE current[k]]
\* the updater of handleReorder
ReorderUpdater(current, sourceId, targetId) ==
    LET fromIndex == FindIndex(current, sourceId)
        toIndex == IF targetId # NoId THEN FindIndex(current, targetId)
                   ELSE Len(current)
        next == SpliceOut(current, fromIndex)
        insertIndex == IF toIndex = 0 - 1 THEN Len(next) ELSE toIndex
    IN  IF fromIndex = 0 - 1 THEN current
        ELSE SpliceIn(next, insertIndex, current[fromIndex + 1])

\* updatePages(updater), given next = updater(snapshotPages(current))
updatePages(next) ==
    IF ~pagesChanged(editorPages, next)
    THEN /\ editorPages' = editorPages
         /\ history' = history
         /\ discarded' = discarded
    ELSE /\ editorPages' = next
         /\ history' = PushHistory(history, editorPages)
         /\ discarded' = (discarded \/ Len(history) >= HISTORY_LIMIT)

\* the updater of handleUndo: the pages and the history it leaves
UndoKeepsSnapshot(prev, current) ==
    IF Len(prev) = 0
    THEN [pages |-> current, history |-> prev]
    ELSE [pages |-> snapshotPages(Head(prev)), history |-> prev]
Undone(prev, current) ==
    IF Len(prev) = 0
    THEN [pages |-> current, history |-> prev]
    ELSE [pages |-> snapshotPages(Head(prev)), history |-> Tail(prev)]

\* a handler call: its name, the page it is about and its other argument
Op(name, pageId, arg) == [op |-> name, pageId |-> pageId, arg |-> arg]

InitEdit ==
    /\ pdf = 0
    /\ editorPages = <<>>
    /\ history = <<>>
    /\ dragSourceId = NoId
    /\ lastOp = Op("none", NoId, 0)
    /\ edits = 0
    /\ discarded = FALSE

\* an edit request is free while the budget lasts
FreeEdit == edits < MaxFreeEdits
Spend == edits' = IF FreeEdit THEN edits + 1 ELSE edits
\* the rotation of the page with this id
RotationOf(pageId) == editorPages[FindIndex(editorPages, pageId) + 1].rotation
\* the rotate button that turns page 1 further the way it is turned
KeepTurning == IF RotationOf(1) < 0 THEN 0 - 90 ELSE 90
WithinTurns(list) ==
    \A k \in 1..Len(list) :
        list[k].rotation \in (0 - 90 * MaxTurns)..(90 * MaxTurns)

\* loadFile(file) succeeds: setPdf(loaded), and the effect on pdf sets
\* pages to buildEditablePages(pdf) and empties the history
LoadFile ==
    /\ pdf = 0
    /\ UNCHANGED notEdit
    /\ \E pageCount \in 1..MaxEditPages :
         /\ pdf' = pageCount
         /\ editorPages' = buildEditablePages(pageCount)
    /\ history' = <<>>
    /\ lastOp' = Op("load", NoId, 0)
    /\ edits' = 0
    /\ discarded' = FALSE
    /\ UNCHANGED dragSourceId

\* resetWorkspace()
ResetWorkspace ==
    /\ pdf # 0
    /\ UNCHANGED notEdit
    /\ pdf' = 0
    /\ editorPages' = <<>>
    /\ history' = <<>>
    /\ lastOp' = Op("reset", NoId, 0)
    /\ edits' = 0
    /\ discarded' = FALSE
    /\ UNCHANGED dragSourceId

\* handleRotate(pageId, delta), from the two rotate buttons of a page card
Rotate ==
    /\ pdf # 0
    /\ UNCHANGED notEdit
    /\ \E pageId \in 1..pdf, delta \in {0 - 90, 90} :
         /\ FreeEdit \/ (pageId = 1 /\ delta = KeepTurning)
         /\ WithinTurns(RotateUpdater(snapshotPages(editorPages), pageId, delta))
         /\ updatePages(RotateUpdater(snapshotPages(editorPages), pageId, delta))
         /\ lastOp' = Op("rotate", pageId, delta)
    /\ Spend
    /\ UNCHANGED <<pdf, dragSourceId>>

\* handleToggleDelete(pageId), from the delete/restore button of a page card
ToggleDelete ==
    /\ pdf # 0
    /\ FreeEdit
    /\ UNCHANGED notEdit
    /\ \E pageId \in 1..pdf :
         /\ updatePages(ToggleDeleteUpdater(snapshotPages(editorPages), pageId))
         /\ lastOp' = Op("toggle", pageId, 0)
    /\ Spend
    /\ UNCHANGED <<pdf, dragSourceId>>

\* handlePageDragStart(event, pageId)
PageDragStart ==
    /\ pdf # 0
    /\ FreeEdit
    /\ UNCHANGED notEdit
    /\ \E pageId \in 1..pdf :
         /\ dragSourceId' = pageId
         /\ lastOp' = Op("dragstart", pageId, 0)
    /\ UNCHANGED <<pdf, editorPages, history, edits, discarded>>

\* onDragEnd of a page card
PageDragEnd ==
    /\ pdf # 0
    /\ UNCHANGED notEdit
    /\ dragSourceId' = NoId
    /\ lastOp' = Op("dragend", NoId, 0)
    /\ UNCHANGED <<pdf, editorPages, history, edits, discarded>>

\* handleReorder(targetId) with dragSourceId.current = sourceId
handleReorder(sourceId, targetId) ==
    /\ dragSourceId' = NoId
    /\ lastOp' = Op("reorder", sourceId, targetId)
    /\ IF sourceId = NoId \/ sourceId = targetId
       THEN UNCHANGED <<editorPages, history, discarded>>
       ELSE updatePages(ReorderUpdater(snapshotPages(editorPages), sourceId, targetId))

\* handlePageDrop(event, targetId), on a page card or on the end zone; the
\* dragged text is the id set by handlePageDragStart, or was dragged in
PageDrop ==
    /\ pdf # 0
    /\ FreeEdit
    /\ UNCHANGED notEdit
    /\ \E targetId \in {NoId} \cup (1..pdf),
          transferId \in {NoId, ForeignId, dragSourceId} :
         handleReorder(IF transferId # NoId THEN transferId ELSE dragSourceId,
                       targetId)
    /\ Spend
    /\ UNCHANGED pdf

\* handleReorder(null), from the keyboard on the end zone
MoveToEnd ==
    /\ pdf # 0
    /\ FreeEdit
    /\ UNCHANGED notEdit
    /\ handleReorder(dragSourceId, NoId)
    /\ Spend
    /\ UNCHANGED pdf

\* handleUndo()
Undo ==
    /\ UNCHANGED notEdit
    /\ editorPages' = Undone(history, editorPages).pages
    /\ history' = Undone(history, editorPages).history
    /\ lastOp' = Op("undo", NoId, 0)
    /\ UNCHANGED <<pdf, dragSourceId, edits, discarded>>

NextEdit ==
    \/ LoadFile
    \/ ResetWorkspace
    \/ Rotate
    \/ ToggleDelete
    \/ PageDragStart
    \/ PageDragEnd
    \/ PageDrop
    \/ MoveToEnd
    \/ Undo

\* handleApplyDownload(): applyPageEdits(pdf, pages) is called with the
\* list of the session
ExportCall ==
    /\ pdf # 0
    /\ Len(editorPages) # 0
    /\ apc = "idle"
    /\ UNCHANGED notApply
    /\ ApplyEnter(pdf, editorPages)

\* a session of rotations, deletions and drags that ends with one export
NextExport ==
    \/ apc = "idle" /\ LoadFile
    \/ apc = "idle" /\ Rotate
    \/ apc = "idle" /\ ToggleDelete
    \/ apc = "idle" /\ PageDragStart
    \/ apc = "idle" /\ PageDrop
    \/ ExportCall
    \/ ApplyLoaded
    \/ ApplyCreated
    \/ ApplyCopied
    \/ ApplySaved

(***************************************************************************)
(* Claims about the rotation of exported pages.                            *)
(***************************************************************************)
\* the descriptor of the session with this id
DescriptorOf(list, pageId) == list[FindIndex(list, pageId) + 1]
\* rotating a page adds the delta to its stored rotation, and an edit leaves
\* every other stored rotation as it is
C14_RotationAccumulates ==
    pdf' = pdf /\ pdf # 0 /\ lastOp'.op \in {"rotate", "toggle", "reorder"} =>
        \A id \in 1..pdf :
            DescriptorOf(editorPages', id).rotation =
                DescriptorOf(editorPages, id).rotation
                    + (IF lastOp'.op = "rotate" /\ lastOp'.pageId = id
                       THEN lastOp'.arg ELSE 0)
\* the page exported for the i-th kept descriptor carries r mod 360, set by
\* one setRotation call, or is the untouched copy when that is 0
C14_ExportedRotation ==
    \A i \in 1..Len(aout.pages) :
        LET pageState == aargs.pages[NthNonDeleted(aargs.pages, i)]
            n == pageState.rotation % 360
        IN  /\ n \in 0..359
            /\ n = 0 => /\ aout.pages[i].setRotation = 0
                        /\ aout.pages[i].angle = SourceAngle(pageState.originalIndex)
            /\ n # 0 => /\ aout.pages[i].setRotation = 1
                        /\ aout.pages[i].angle = n

\* C14: a descriptor rotation r, negative or beyond 360, is exported as
\* n = r mod 360 in [0, 360): for n = 0 no rotation is set on the copied page,
\* otherwise the page's rotation is set to n as an absolute value, so
\* rotations that differ by a multiple of 360 export alike; editing stores
\* the accumulated +90/-90 deltas and never normalizes them.
C14_RotationClampedAtExport ==
    [][C14_RotationAccumulates]_editVars /\ []C14_ExportedRotation

\* a session turned page 1 to 450 and page 2 to -90 and exported them as 90
\* and 270
C14_Witness ==
    /\ apc = "done"
    /\ Len(aargs.pages) = 2
    /\ aargs.pages[1].rotation = 450 /\ aargs.pages[2].rotation = 0 - 90
    /\ abytes.pages[1].angle = 90 /\ abytes.pages[2].angle = 270

(***************************************************************************)
(* Claims about the undo history.                                          *)
(***************************************************************************)
\* the step was made by a handler that asks for an edit
EditRequested == lastOp'.op \in {"rotate", "toggle", "reorder"}
\* the newest snapshot of the history after the step is the list before it,
\* and the snapshots below it are those of the history before the step, of
\* which the twentieth is gone
Recorded ==
    /\ Len(history') = (IF Len(history) < 20 THEN Len(history) + 1 ELSE 20)
    /\ history'[1] = editorPages
    /\ \A k \in 2..Len(history') : history'[k] = history[k - 1]

C15_AtMostTwenty == Len(history) <= 20
C15_OldestDiscarded ==
    EditRequested /\ editorPages' # editorPages /\ Len(history) = 20 =>
        /\ Len(history') = 20
        /\ history'[1] = editorPages
        /\ \A k \in 2..20 : history'[k] = history[k - 1]
\* C15: the undo history never holds more than 20 snapshots; a change
\* recorded while 20 are held discards the oldest and keeps the 20 most
\* recent, most recent first.
C15_HistoryBounded == []C15_AtMostTwenty /\ [][C15_OldestDiscarded]_editVars

\* the twenty-first change of a session was recorded
C15_Witness ==
    /\ lastOp.op = "rotate"
    /\ Len(history) = 20
    /\ discarded
    /\ history[1] # editorPages

C16_PushedOnChangeOnly ==
    EditRequested =>
        IF editorPages' # editorPages
        THEN Recorded
        ELSE history' = history
\* C16: an edit request that changes the descriptor list pushes the list as it
\* was before the edit; a request that leaves the list as it is (same ids,
\* originalIndex, rotation and isDeleted in the same order) leaves the list
\* and the history unchanged.
C16_SnapshotOnChangeOnly == [][C16_PushedOnChangeOnly]_editVars

\* the last page of an untouched list of two was moved to the end
C16_Witness ==
    /\ lastOp = Op("reorder", 2, NoId)
    /\ pdf = 2
    /\ editorPages = buildEditablePages(2)
    /\ history = <<>>

C17_UndoPops ==
    lastOp'.op = "undo" =>
        IF history = <<>>
        THEN editorPages' = editorPages /\ history' = history
        ELSE editorPages' = history[1] /\ history' = Tail(history)
C17_BackToStart ==
    pdf # 0 /\ ~discarded =>
        IF history = <<>>
        THEN editorPages = buildEditablePages(pdf)
        ELSE history[Len(history)] = buildEditablePages(pdf)
PNG_SIGNATURE == <<137, 80, 78, 71, 13, 10, 26, 10>>
IEND == 1229278788       \* 0x49454e44
IDAT == 1229209940       \* 0x49444154
HugeLength == 2130706432 \* 0x7f000000, a length far beyond the buffer
\* the bytes of 0xfffffff4: 12 more make 2^32
WrappingLength == <<255, 255, 255, 244>>

\* The numbers of the code are doubles, which hold every sum of an offset and
\* a 32-bit length exactly.  They are kept in two parts, high * 2^24 + low
\* with low in 0..2^24-1, as the integers of the model are 32 bits wide.
Number(n) == [high |-> n \div 16777216, low |-> n % 16777216]
\* a number that is known to be small, as an integer
Value(number) == number.high * 16777216 + number.low
\* number + n
PlusUint32(number, n) ==
    LET filled == number.low + n
    IN  [high |-> (number.high + filled \div 16777216) % 256,
         low |-> filled % 16777216]
Plus(number, n) ==
    LET filled == number.low + n
    IN  [high |-> number.high + filled \div 16777216, low |-> filled % 16777216]
\* number > n
Exceeds(number, n) ==
    \/ number.high > Number(n).high
    \/ number.high = Number(n).high /\ number.low > Number(n).low

\* the four bytes of n, most significant first
Uint32Bytes(n) ==
    <<(n \div 16777216) % 256, (n \div 65536) % 256, (n \div 256) % 256, n % 256>>
\* view.getUint32(offset, false): offset is zero-based
getUint32LittleEndian(bytes, offset) ==
    [high |-> bytes[offset + 4],
     low |-> bytes[offset + 1] + 256 * bytes[offset + 2] + 65536 * bytes[offset + 3]]
getUint32(bytes, offset) ==
    [high |-> bytes[offset + 1],
     low |-> 65536 * bytes[offset + 2] + 256 * bytes[offset + 3] + bytes[offset + 4]]

PngChunks ==
    [type : {IEND, IDAT}, size : {0, MaxChunkData},
     declared : {"honest", "huge", "wrapping"}]
PngChunkLists == UNION {[1..k -> PngChunks] : k \in 0..MaxPngChunks}
Zeros(n) == [k \in 1..n |-> 0]
DeclaredLength(chunk) ==
    CASE chunk.declared = "honest" -> Uint32Bytes(chunk.size)
      [] chunk.declared = "huge" -> Uint32Bytes(HugeLength)
      [] chunk.declared = "wrapping" -> WrappingLength
WriteChunk(chunk) ==
    DeclaredLength(chunk) \o Uint32Bytes(chunk.type) \o Zeros(chunk.size)
        \o Zeros(4)
RECURSIVE WriteChunks(_)
WriteChunks(chunks) ==
    IF chunks = <<>> THEN <<>>
    ELSE WriteChunk(Head(chunks)) \o WriteChunks(Tail(chunks))
\* the signature with byte number damage replaced (0: intact)
WriteSignature(damage) ==
    [k \in 1..8 |-> IF k = damage THEN 0 ELSE PNG_SIGNATURE[k]]
WritePng(chunks, damage) == WriteSignature(damage) \o WriteChunks(chunks)

\* matchesSignature(bytes)
matchesSignature(bytes) ==
    IF Len(bytes) < Len(PNG_SIGNATURE) THEN FALSE
    ELSE \A index \in 1..Len(PNG_SIGNATURE) : bytes[index] = PNG_SIGNATURE[index]
\* hasPngSignature(bytes)
hasPngSignature(bytes) == matchesSignature(bytes)

\* one pass of the while loop of isPngBytesComplete at offset: the function
\* returns ("true", "false") or goes on at the next offset ("next"); read
\* holds the offsets of the fields it has read
WalkChunk(bytes, offset) ==
    LET totalLength == Len(bytes)
    IN  IF ~(offset + 8 <= totalLength)
        THEN [verdict |-> "false", offset |-> offset, read |-> {}]
        ELSE LET chunkLength == getUint32(bytes, offset)
                 typeCode == getUint32(bytes, offset + 4)
                 dataEnd == Plus(chunkLength, offset + 8)
                 crcEnd == Plus(dataEnd, 4)
                 read == {offset, offset + 4}
             IN  IF Exceeds(crcEnd, totalLength)
                 THEN [verdict |-> "false", offset |-> offset, read |-> read]
                 ELSE IF typeCode = Number(IEND)
                      THEN [verdict |-> "true", offset |-> offset, read |-> read]
                      ELSE [verdict |-> "next", offset |-> Value(crcEnd),
                            read |-> read]
RECURSIVE Walk(_, _)
Walk(bytes, offset) ==
    LET pass == WalkChunk(bytes, offset)
    IN  IF pass.verdict = "next" THEN Walk(bytes, pass.offset)
        ELSE pass.verdict = "true"
\* isPngBytesComplete(bytes)
isPngBytesComplete(bytes) ==
    IF ~matchesSignature(bytes) THEN FALSE
    ELSE Walk(bytes, Len(PNG_SIGNATURE))

InitPng ==
    /\ pngPc = "idle"
    /\ pngMade = [chunks |-> <<>>, damage |-> 0, keep |-> 0]
    /\ pngBytes = <<>>
    /\ pngOffset = 0
    /\ pngReads = {}
    /\ pngSig = FALSE
    /\ pngResult = FALSE

\* hasPngSignature(bytes) and isPngBytesComplete(bytes) are called on the
\* same bytes; isPngBytesComplete returns false or enters its loop
PngCall ==
    /\ pngPc = "idle"
    /\ UNCHANGED notPng
    /\ \E chunks \in PngChunkLists, damage \in {0, 1, 8} :
         \E keep \in 0..Len(WritePng(chunks, damage)) :
            LET bytes == SubSeq(WritePng(chunks, damage), 1, keep)
            IN  /\ pngMade' = [chunks |-> chunks, damage |-> damage, keep |-> keep]
                /\ pngBytes' = bytes
                /\ pngSig' = hasPngSignature(bytes)
                /\ IF ~matchesSignature(bytes)
                   THEN /\ pngPc' = "returned"
                        /\ pngOffset' = pngOffset
                   ELSE /\ pngPc' = "walking"
                        /\ pngOffset' = Len(PNG_SIGNATURE)
    /\ pngResult' = FALSE
    /\ pngReads' = {}

\* one pass of the while loop, or its exit
PngStep ==
    /\ pngPc = "walking"
    /\ UNCHANGED notPng
    /\ LET pass == WalkChunk(pngBytes, pngOffset)
       IN  /\ pngOffset' = pass.offset
           /\ pngReads' = pngReads \cup pass.read
           /\ pngPc' = IF pass.verdict = "next" THEN "walking" ELSE "returned"
           /\ pngResult' = (pass.verdict = "true")
    /\ UNCHANGED <<pngMade, pngBytes, pngSig>>

NextPng ==
    \/ PngCall
    \/ PngStep

(***************************************************************************)
(* Claims about the PNG integrity check.                                   *)
(***************************************************************************)
\* where chunk k of the list ends in the bytes written
RECURSIVE ChunkEndOffset(_, _)
ChunkEndOffset(chunks, k) ==
    IF k = 0 THEN 8 ELSE ChunkEndOffset(chunks, k - 1) + 12 + chunks[k].size
\* the bytes start with the intact signature
SignatureKept == pngMade.damage = 0 /\ pngMade.keep >= 8
\* chunk k is an IEND chunk that lies within the bytes passed, behind chunks
\* that are no IEND chunks, and every declared length up to it is the true one
IendReached(k) ==
    /\ pngMade.chunks[k].type = IEND
    /\ \A j \in 1..k : pngMade.chunks[j].declared = "honest"
    /\ \A j \in 1..(k - 1) : pngMade.chunks[j].type # IEND
    /\ ChunkEndOffset(pngMade.chunks, k) <= pngMade.keep

\* C18: isPngBytesComplete returns true exactly when the bytes start with the
\* 8-byte signature and the walk from offset 8 comes to an IEND chunk that
\* lies within the buffer; it returns false without the signature, when the
\* buffer ends before an IEND chunk and when a declared length leads beyond
\* the buffer; hasPngSignature is true exactly when the signature is there,
\* so a complete PNG has the signature.
C18_CompleteIffIendReached ==
    /\ pngPc # "idle" => (pngSig <=> SignatureKept)
    /\ pngPc = "returned" =>
          /\ pngResult <=>
                /\ SignatureKept
                /\ \E k \in 1..Len(pngMade.chunks) : IendReached(k)
          /\ pngResult => pngSig
          /\ pngResult = isPngBytesComplete(pngBytes)

\* a PNG of an IDAT and an IEND chunk was found complete
C18_Witness ==
    /\ pngPc = "returned"
    /\ Len(pngMade.chunks) = 2
    /\ pngMade.chunks[1] = [type |-> IDAT, size |-> 1, declared |-> "honest"]
    /\ pngMade.chunks[2].type = IEND
    /\ pngMade.keep = Len(pngBytes)
    /\ pngOffset = 21
    /\ pngResult

\* the pass the loop makes next
NextPass == WalkChunk(pngBytes, pngOffset)
\* C29 (the reads): every field the walk has read, and the fields of the pass
\* it makes next, lie within the buffer, at or behind the signature.
C29_ReadsWithinBuffer ==
    \A at \in pngReads \cup (IF pngPc = "walking" THEN NextPass.read ELSE {}) :
        at >= Len(PNG_SIGNATURE) /\ at + 4 <= Len(pngBytes)
\* C29 (the cursor): a pass that goes round the loop again leaves the offset
\* greater than it found it and not beyond the buffer.
C29_CursorIncreases ==
    /\ pngPc = "walking" /\ NextPass.verdict = "next" =>
          NextPass.offset > pngOffset /\ NextPass.offset <= Len(pngBytes)
    /\ pngPc # "idle" => pngOffset <= Len(pngBytes)
\* C29: for every buffer and every declared chunk length, among them lengths
\* of 2^31 and more, the walk of isPngBytesComplete reads length and type
\* fields within the buffer only, moves its offset forward with every pass
\* and returns.
C29_WalkTerminates ==
    /\ []C29_ReadsWithinBuffer
    /\ []C29_CursorIncreases
    /\ [][pngPc = "walking" /\ pngPc' = "walking" => pngOffset' > pngOffset]_pngVars
    /\ (pngPc = "walking") ~> (pngPc = "returned")

\* the walk went over a chunk with its true length, read the next chunk's
\* declared length of 0xfffffff4 and returned false
C29_Witness ==
    /\ pngPc = "returned"
    /\ Len(pngMade.chunks) = 2
    /\ pngMade.chunks[1].declared = "honest"
    /\ pngMade.chunks[2].declared = "wrapping"
    /\ pngMade.keep = Len(pngBytes)
    /\ pngOffset >= 20
    /\ pngReads = {8, 12, pngOffset, pngOffset + 4}
    /\ ~pngResult

(***************************************************************************)
(* ImagesToPdfPage: adding an image file (handleFiles, buildAsset,         *)
(* ensureEmbeddableImageBytes) and embedding the assets (handleExport).    *)
(* A MIME type is written as the pair of its parts: "image/png" is         *)
(* <<"image", "png">> and the empty type is <<"", "">>.  One file is added *)
(* at a time, and one export is followed.                                  *)
(***************************************************************************)
FileTypes ==
    {<<"image", "png">>, <<"image", "PNG">>, <<"image", "jpeg">>,
     <<"image", "jpg">>, <<"image", "pjpeg">>, <<"image", "webp">>,
     <<"", "">>, <<"text", "plain">>}
\* fileType?.toLowerCase() ?? ""
ToLowerCase(part) == IF part = "PNG" THEN "png" ELSE part
NormalizedType(type) == <<ToLowerCase(type[1]), ToLowerCase(type[2])>>
\* file.type.startsWith("image/")
isImageFile(file) == file.type[1] = "image"

\* the bytes of the files, and what the canvas encodes
CompletePng ==
    WritePng(<<[type |-> IDAT, size |-> 1, declared |-> "honest"],
               [type |-> IEND, size |-> 0, declared |-> "honest"]>>, 0)
TruncatedPng == SubSeq(CompletePng, 1, 21)
DamagedPng ==
    WritePng(<<[type |-> IEND, size |-> 0, declared |-> "honest"]>>, 1)
JpegBytes == <<255, 216, 255, 224>>
EncodedPng ==
    WritePng(<<[type |-> IDAT, size |-> 0, declared |-> "honest"],
               [type |-> IEND, size |-> 0, declared |-> "honest"]>>, 0)
EncodedJpeg == <<255, 216, 255, 219>>
FileBytes == {CompletePng, TruncatedPng, DamagedPng, JpegBytes}
\* reencodeImageElement(image, "image/png") resolves with one of these
PngEncodings == {EncodedPng, TruncatedPng}

NoFile == [type |-> <<"", "">>, bytes |-> <<>>]
NotRepaired == [outcome |-> "none", bytes |-> <<>>]
Asset(embedType, bytes) ==
    [embedType |-> embedType, bytes |-> [k \in 1..Len(bytes) |-> bytes[k]]]

\* const treatAsPng = ...
treatAsPng(file) ==
    LET normalizedType == NormalizedType(file.type)
    IN  \/ normalizedType = <<"image", "png">>
        \/ normalizedType = <<"", "">> /\ hasPngSignature(file.bytes)
\* const isJpeg = ...
isJpeg(file) ==
    NormalizedType(file.type) \in
        {<<"image", "jpeg">>, <<"image", "jpg">>, <<"image", "pjpeg">>}
\* if (isPngBytesComplete(repaired))
RepairAcceptedUnchecked(repaired) == TRUE
RepairAccepted(repaired) == isPngBytesComplete(repaired)

InitImages ==
    /\ ipc = "idle"
    /\ ifile = NoFile
    /\ irepaired = NotRepaired
    /\ images = <<>>
    /\ ierror = "none"
    /\ xpc = "idle"
    /\ xk = 0
    /\ embedLog = <<>>

\* buildAsset resolves and handleFiles appends the asset to images
AssetBuilt(embedType, bytes) ==
    /\ images' = Append(images, Asset(embedType, bytes))
    /\ ipc' = "idle"
    /\ UNCHANGED ierror
\* buildAsset rejects and handleFiles catches it
AssetFailed ==
    /\ ierror' = "Failed to load one of the images."
    /\ ipc' = "idle"
    /\ UNCHANGED images

\* handleFiles(files) is called with one file: the isImageFile test, then
\* buildAsset(file) awaits the bytes, the data URL and the image element
FilesPicked ==
    /\ ipc = "idle" /\ xpc = "idle"
    /\ Len(images) < MaxImageFiles
    /\ UNCHANGED notImages
    /\ \E type \in FileTypes, bytes \in FileBytes :
         LET file == [type |-> type, bytes |-> bytes]
         IN  /\ ifile' = file
             /\ IF ~isImageFile(file)
                THEN ierror' = "Only image files are supported." /\ ipc' = "idle"
                ELSE ierror' = "none" /\ ipc' = "decoding"
    /\ irepaired' = NotRepaired
    /\ UNCHANGED <<images, xpc, xk, embedLog>>

\* the reads and loadImageElement settle; ensureEmbeddableImageBytes runs up to
\* its return or its first await
ImageDecoded ==
    /\ ipc = "decoding"
    /\ UNCHANGED notImages
    /\ \/ AssetFailed
       \/ IF treatAsPng(ifile)
          THEN IF isPngBytesComplete(ifile.bytes)
               THEN AssetBuilt("image/png", ifile.bytes)
               ELSE ipc' = "repairing" /\ UNCHANGED <<images, ierror>>
          ELSE IF isJpeg(ifile)
               THEN AssetBuilt("image/jpeg", ifile.bytes)
               ELSE IF NormalizedType(ifile.type)[1] = "image"
                       \/ NormalizedType(ifile.type) = <<"", "">>
                    THEN ipc' = "fallback" /\ UNCHANGED <<images, ierror>>
                    ELSE AssetFailed
    /\ UNCHANGED <<ifile, irepaired, xpc, xk, embedLog>>

\* reencodeImageElement(image, "image/png") settles
RepairSettles ==
    /\ ipc = "repairing"
    /\ UNCHANGED notImages
    /\ \/ \E repaired \in PngEncodings :
            /\ irepaired' = [outcome |-> "resolved", bytes |-> repaired]
            /\ IF RepairAccepted(repaired)
               THEN AssetBuilt("image/png", repaired)
               ELSE ipc' = "fallback" /\ UNCHANGED <<images, ierror>>
       \/ /\ irepaired' = [outcome |-> "rejected", bytes |-> <<>>]
          /\ ipc' = "fallback"
          /\ UNCHANGED <<images, ierror>>
    /\ UNCHANGED <<ifile, xpc, xk, embedLog>>

\* reencodeImageElement(image, "image/jpeg") settles
FallbackSettles ==
    /\ ipc = "fallback"
    /\ UNCHANGED notImages
    /\ \/ AssetBuilt("image/jpeg", EncodedJpeg)
       \/ AssetFailed
    /\ UNCHANGED <<ifile, irepaired, xpc, xk, embedLog>>

\* asset.embedType === "image/png" ? doc.embedPng(asset.bytes)
\*                                    : doc.embedJpg(asset.bytes)
EmbedCall(asset) ==
    [method |-> IF asset.embedType = "image/png" THEN "embedPng" ELSE "embedJpg",
     bytes |-> asset.bytes]
\* the catch block of handleExport
ExportCatch(e) ==
    /\ xpc' = "failed"
    /\ ierror' = IF e.isError THEN e.message ELSE "Failed to export PDF."

\* handleExport() is called: PDFDocument.create() is awaited
ImagesExportCall ==
    /\ xpc = "idle" /\ ipc = "idle"
    /\ Len(images) # 0
    /\ UNCHANGED notImages
    /\ xpc' = "creating"
    /\ ierror' = "none"
    /\ UNCHANGED <<ipc, ifile, irepaired, images, xk, embedLog>>

\* PDFDocument.create() settles; a page is added for the first asset and its
\* bytes are given to embedPng or embedJpg
ImagesExportCreated ==
    /\ xpc = "creating"
    /\ UNCHANGED notImages
    /\ \/ /\ xk' = 1
          /\ embedLog' = Append(embedLog, EmbedCall(images[1]))
          /\ xpc' = "embedding"
          /\ UNCHANGED ierror
       \/ /\ \E e \in ServiceFaults : ExportCatch(e)
          /\ UNCHANGED <<xk, embedLog>>
    /\ UNCHANGED <<ipc, ifile, irepaired, images>>

\* embedPng / embedJpg settles (embedPng does not settle on a PNG without its
\* IEND chunk); the image is drawn; the next asset is embedded or doc.save()
\* is awaited
ImagesEmbedded ==
    /\ xpc = "embedding"
    /\ embedLog[Len(embedLog)].method = "embedPng"
          => isPngBytesComplete(embedLog[Len(embedLog)].bytes)
    /\ UNCHANGED notImages
    /\ \/ /\ IF xk < Len(images)
             THEN /\ xk' = xk + 1
                  /\ embedLog' = Append(embedLog, EmbedCall(images[xk + 1]))
                  /\ xpc' = "embedding"
             ELSE /\ xpc' = "saving"
                  /\ UNCHANGED <<xk, embedLog>>
          /\ UNCHANGED ierror
       \/ /\ \E e \in ServiceFaults : ExportCatch(e)
          /\ UNCHANGED <<xk, embedLog>>
    /\ UNCHANGED <<ipc, ifile, irepaired, images>>

\* doc.save() settles
ImagesExportSaved ==
    /\ xpc = "saving"
    /\ UNCHANGED notImages
    /\ \/ xpc' = "done" /\ UNCHANGED ierror
       \/ \E e \in ServiceFaults : ExportCatch(e)
    /\ UNCHANGED <<ipc, ifile, irepaired, images, xk, embedLog>>

NextImages ==
    \/ FilesPicked
    \/ ImageDecoded
    \/ RepairSettles
    \/ FallbackSettles
    \/ ImagesExportCall
    \/ ImagesExportCreated
    \/ ImagesEmbedded
    \/ ImagesExportSaved

(***************************************************************************)
(* Claims about the repair of PNG images.                                  *)
(***************************************************************************)
\* the file is declared as PNG, or declares no type and starts as a PNG does
DeclaredOrSniffedPng ==
    \/ ifile.type \in {<<"image", "png">>, <<"image", "PNG">>}
    \/ ifile.type = <<"", "">> /\ SubSeq(ifile.bytes, 1, 8) = PNG_SIGNATURE
\* the asset a step has added to images
Added == images'[Len(images')]
C19_RepairPolicy ==
    Len(images') = Len(images) + 1 /\ DeclaredOrSniffedPng =>
        IF isPngBytesComplete(ifile.bytes)
        THEN /\ Added = [embedType |-> "image/png", bytes |-> ifile.bytes]
             /\ irepaired' = NotRepaired
        ELSE IF irepaired'.outcome = "resolved"
                /\ isPngBytesComplete(irepaired'.bytes)
             THEN Added = [embedType |-> "image/png", bytes |-> irepaired'.bytes]
             ELSE /\ irepaired'.outcome \in {"resolved", "rejected"}
                  /\ Added = [embedType |-> "image/jpeg", bytes |-> EncodedJpeg]
C19_PngAssetsComplete ==
    /\ \A k \in 1..Len(images) :
          images[k].embedType = "image/png" => isPngBytesComplete(images[k].bytes)
    /\ \A k \in 1..Len(embedLog) :
          embedLog[k].method = "embedPng" => isPngBytesComplete(embedLog[k].bytes)
\* C19: an image treated as PNG keeps its bytes and is embedded as PNG when
\* they pass the integrity check; otherwise it is re-encoded as PNG, and only
\* if that fails or gives incomplete bytes it is re-encoded and recorded as
\* JPEG.  So every asset recorded as PNG, and every byte sequence given to
\* embedPng, passes isPngBytesComplete.
C19_PngRepaired == []C19_PngAssetsComplete /\ [][C19_RepairPolicy]_imageVars

\* a truncated PNG was added, re-encoded as a complete PNG and given to embedPng
C19_Witness ==
    /\ ifile = [type |-> <<"image", "png">>, bytes |-> TruncatedPng]
    /\ irepaired = [outcome |-> "resolved", bytes |-> EncodedPng]
    /\ Len(images) = 1
    /\ images[1] = [embedType |-> "image/png", bytes |-> EncodedPng]
    /\ xpc = "done"
    /\ embedLog = <<[method |-> "embedPng", bytes |-> EncodedPng]>>

(***************************************************************************)
(* src/lib/imageLayout: the placement of an image on a page.  A number is  *)
(* the exact fraction n / d with d > 0; the rounding of floating-point     *)
(* arithmetic is not modelled.                                             *)
(***************************************************************************)
Frac(n, d) == [n |-> n, d |-> d]
Whole(k) == Frac(k, 1)
FracLess(a, b) == a.n * b.d < b.n * a.d
FracLeq(a, b) == a.n * b.d <= b.n * a.d
FracSame(a, b) == a.n * b.d = b.n * a.d
\* Math.min(a, b), Math.max(a, b)
MathMin(a, b) == IF FracLess(b, a) THEN b ELSE a
MathMax(a, b) == IF FracLess(a, b) THEN b ELSE a
\* a - b, a * k, a / k for an integer k (k > 0 in a / k)
FracMinus(a, b) == Frac(a.n * b.d - b.n * a.d, a.d * b.d)
FracTimes(a, k) == Frac(a.n * k, a.d)
FracOver(a, k) == Frac(a.n, a.d * k)
\* k * a for an integer k and a fraction a
ScaledBy(k, a) == Frac(k * a.n, a.d)

\* clampMargin(value, max)
clampMarginUnbounded(value, max) == MathMax(Whole(0), value)
clampMargin(value, max) == MathMax(Whole(0), MathMin(value, max))

\* computeScale(imageWidth, imageHeight, contentWidth, contentHeight, mode)
computeScaleCenterAsFit(imageWidth, imageHeight, contentWidth, contentHeight, mode) ==
    IF mode = "fill"
    THEN MathMax(FracOver(contentWidth, imageWidth),
                 FracOver(contentHeight, imageHeight))
    ELSE MathMin(FracOver(contentWidth, imageWidth),
                 FracOver(contentHeight, imageHeight))
computeScale(imageWidth, imageHeight, contentWidth, contentHeight, mode) ==
    IF mode = "fill"
    THEN MathMax(FracOver(contentWidth, imageWidth),
                 FracOver(contentHeight, imageHeight))
    ELSE IF mode = "center"
         THEN LET maxScale == MathMin(FracOver(contentWidth, imageWidth),
                                      FracOver(contentHeight, imageHeight))
              IN  MathMin(Whole(1), maxScale)
         ELSE MathMin(FracOver(contentWidth, imageWidth),
                      FracOver(contentHeight, imageHeight))

\* computeImagePlacement(imageWidth, imageHeight, page, mode)
computeImagePlacement(imageWidth, imageHeight, page, mode) ==
    IF imageWidth <= 0 \/ imageHeight <= 0
    THEN [width |-> Whole(0), height |-> Whole(0),
          x |-> Frac(page.width, 2), y |-> Frac(page.height, 2)]
    ELSE LET margin == clampMargin(Whole(page.margin),
                           Frac(IF page.width < page.height
                                THEN page.width ELSE page.height, 2))
             contentWidth == FracMinus(Whole(page.width), FracTimes(margin, 2))
             contentHeight == FracMinus(Whole(page.height), FracTimes(margin, 2))
             scale == computeScale(imageWidth, imageHeight,
                                   contentWidth, contentHeight, mode)
             width == ScaledBy(imageWidth, scale)
             height == ScaledBy(imageHeight, scale)
         IN  [width |-> width, height |-> height,
              x |-> FracOver(FracMinus(Whole(page.width), width), 2),
              y |-> FracOver(FracMinus(Whole(page.height), height), 2)]

FitModes == {"fit", "fill", "center"}
PageBoxes ==
    [width : 1..MaxPageDim, height : 1..MaxPageDim,
     margin : (0 - 1)..(MaxPageDim + 1)]

InitLayout ==
    /\ placed = FALSE
    /\ pargs = [imageWidth |-> 0, imageHeight |-> 0,
                page |-> [width |-> 1, height |-> 1, margin |-> 0],
                mode |-> "fit"]
    /\ placement = [width |-> Whole(0), height |-> Whole(0),
                    x |-> Whole(0), y |-> Whole(0)]

\* computeImagePlacement is called and returns
PlaceImage ==
    /\ ~placed
    /\ UNCHANGED notLayout
    /\ \E imageWidth \in 0..MaxImageDim, imageHeight \in 0..MaxImageDim,
          page \in PageBoxes, mode \in FitModes :
         /\ pargs' = [imageWidth |-> imageWidth, imageHeight |-> imageHeight,
                      page |-> page, mode |-> mode]
         /\ placement' = computeImagePlacement(imageWidth, imageHeight, page, mode)
    /\ placed' = TRUE

NextLayout == PlaceImage

(***************************************************************************)
(* Claims about the placement of images.                                   *)
(***************************************************************************)
\* C20: in center mode an image of positive pixel dimensions is never placed
\* wider or higher than it is, whatever the page box and the margin.
C20_CenterNeverUpscales ==
    placed /\ pargs.mode = "center"
           /\ pargs.imageWidth > 0 /\ pargs.imageHeight > 0 =>
        /\ placement.width.d > 0 /\ placement.height.d > 0
        /\ placement.width.n <= pargs.imageWidth * placement.width.d
        /\ placement.height.n <= pargs.imageHeight * placement.height.d

\* a 1 x 1 image on a 3 x 3 page without margin is placed 1 x 1, centred
C20_Witness ==
    /\ placed
    /\ pargs = [imageWidth |-> 1, imageHeight |-> 1,
                page |-> [width |-> 3, height |-> 3, margin |-> 0],
                mode |-> "center"]
    /\ FracSame(placement.width, Whole(1))
    /\ FracSame(placement.height, Whole(1))
    /\ FracSame(placement.x, Whole(1))

\* the margin computeImagePlacement uses for a page, and the content box it leaves
UsedMargin(page) ==
    clampMargin(Whole(page.margin),
                Frac(IF page.width < page.height THEN page.width ELSE page.height, 2))
ContentWidth(page) == FracMinus(Whole(page.width), FracTimes(UsedMargin(page), 2))
ContentHeight(page) == FracMinus(Whole(page.height), FracTimes(UsedMargin(page), 2))

\* C21: whenever a placement is computed for an image of positive dimensions,
\* the clamped margin leaves a content box of strictly positive width and
\* strictly positive height.
C21_ContentBoxPositive ==
    placed /\ pargs.imageWidth > 0 /\ pargs.imageHeight > 0 =>
        /\ FracLess(Whole(0), ContentWidth(pargs.page))
        /\ FracLess(Whole(0), ContentHeight(pargs.page))

\* C21 (as the code has it): the clamped margin leaves a content box that is
\* never negative; its width and height are both strictly positive exactly when
\* twice the requested margin is below the smaller page dimension, and a margin
\* of half the smaller dimension or more leaves a box of zero width or height.
SmallerSide(page) == IF page.width < page.height THEN page.width ELSE page.height
C21_ContentBoxNeverNegative ==
    placed /\ pargs.imageWidth > 0 /\ pargs.imageHeight > 0 =>
        /\ FracLeq(Whole(0), ContentWidth(pargs.page))
        /\ FracLeq(Whole(0), ContentHeight(pargs.page))
        /\ (/\ FracLess(Whole(0), ContentWidth(pargs.page))
            /\ FracLess(Whole(0), ContentHeight(pargs.page)))
             <=> 2 * pargs.page.margin < SmallerSide(pargs.page)

\* a margin beyond the page: a 2 x 3 page with margin 4 keeps a 0 x 1 content box
C21_Witness ==
    /\ placed
    /\ pargs.imageWidth > 0 /\ pargs.imageHeight > 0
    /\ pargs.page = [width |-> 2, height |-> 3, margin |-> 4]
    /\ FracSame(ContentWidth(pargs.page), Whole(0))
    /\ FracSame(ContentHeight(pargs.page), Whole(1))
    /\ FracSame(placement.width, Whole(0))
    /\ pargs.mode = "fit"

(***************************************************************************)
(* src/lib/pdfCompression: compressPdfWithPreset and buildCompressedPdf.   *)
(* Every page is rendered, encoded and embedded inside one try block; the  *)
(* awaits of a page are the render (getPage, render, toBlob) and embedJpg. *)
(***************************************************************************)
\* the decimal literals of the table are written as <<digits, power of ten>>:
\* <<85, 100>> is the literal 0.85
PRESET_OPTIONS ==
    << [id |-> "high", targetRatio |-> <<85, 100>>,
        maxDimension |-> 2200, jpegQuality |-> <<85, 100>>],
       [id |-> "balanced", targetRatio |-> <<7, 10>>,
        maxDimension |-> 1800, jpegQuality |-> <<75, 100>>],
       [id |-> "smallest", targetRatio |-> <<55, 100>>,
        maxDimension |-> 1400, jpegQuality |-> <<65, 100>>] >>
PresetIds == {"high", "balanced", "smallest", "unknown"}

\* PRESET_LOOKUP[presetId] ?? PRESET_LOOKUP.balanced
getCompressionPresetFirst(presetId) == PRESET_OPTIONS[1]
getCompressionPreset(presetId) ==
    IF \E i \in 1..Len(PRESET_OPTIONS) : PRESET_OPTIONS[i].id = presetId
    THEN PRESET_OPTIONS[CHOOSE i \in 1..Len(PRESET_OPTIONS) :
                            PRESET_OPTIONS[i].id = presetId]
    ELSE PRESET_OPTIONS[2]

\* `Page ${pageNum} could not be compressed and was skipped.`
WarningForAnyPage(pageNum) == [text |-> "could not be compressed and was skipped", page |-> 1]
WarningFor(pageNum) == [text |-> "could not be compressed and was skipped", page |-> pageNum]

\* the page drawn from the compressed image of page pageNum
CompressedPage(pageNum, preset) ==
    [source |-> pageNum, jpegQuality |-> preset.jpegQuality,
     maxDimension |-> preset.maxDimension]

\* output.getPageCount() === 0
NoPagesCompressedIgnored(output) == FALSE
NoPagesCompressed(output) == Len(output) = 0

NoCompressResult == [returned |-> FALSE, pdfBytes |-> <<>>, warnings |-> <<>>,
                     hasWarnings |-> FALSE]
NoPagesError ==
    [kind |-> "raw", code |-> "none", message |-> "No pages were successfully compressed."]

InitCompress ==
    /\ cmpPc = "idle"
    /\ cmpArgs = [pageCount |-> 0, presetId |-> "balanced"]
    /\ cmpPage = 0
    /\ cmpOutput = <<>>
    /\ cmpWarnings = <<>>
    /\ cmpResult = NoCompressResult
    /\ cmpError = NoError
    /\ cmpFailed = {}
    /\ cmpStarted = <<>>

\* the loop test for pageNum = next, and what follows the loop
CompressLoopTest(next, output) ==
    /\ cmpPage' = next
    /\ IF next <= cmpArgs.pageCount
       THEN /\ cmpPc' = "render"
            /\ cmpStarted' = Append(cmpStarted, next)
            /\ cmpError' = cmpError
       ELSE /\ cmpStarted' = cmpStarted
            /\ IF NoPagesCompressed(output)
               THEN /\ cmpPc' = "failed"
                    /\ cmpError' = NoPagesError
               ELSE /\ cmpPc' = "saving"
                    /\ cmpError' = cmpError

\* the catch block of a page: warn, push the warning, go on with the next page
PageSkipped ==
    /\ cmpWarnings' = Append(cmpWarnings, WarningFor(cmpPage))
    /\ cmpFailed' = cmpFailed \cup {cmpPage}
    /\ cmpOutput' = cmpOutput
    /\ CompressLoopTest(cmpPage + 1, cmpOutput)

\* compressPdfWithPreset(pdf, presetId) up to PDFDocument.create()
CompressCall ==
    /\ cmpPc = "idle"
    /\ \E pageCount \in 0..MaxCompressPages, presetId \in PresetIds :
         cmpArgs' = [pageCount |-> pageCount, presetId |-> presetId]
    /\ cmpPc' = "creating"
    /\ UNCHANGED <<cmpPage, cmpOutput, cmpWarnings, cmpResult, cmpError, cmpFailed,
                   cmpStarted>>
    /\ UNCHANGED notCompress

\* PDFDocument.create() settles; a rejection leaves the call as it is
CompressCreated ==
    /\ cmpPc = "creating"
    /\ \/ /\ CompressLoopTest(1, cmpOutput)
          /\ UNCHANGED <<cmpArgs, cmpOutput, cmpWarnings, cmpResult, cmpFailed>>
       \/ /\ \E e \in ServiceFaults : cmpError' = Unwrapped(e)
          /\ cmpPc' = "failed"
          /\ UNCHANGED <<cmpArgs, cmpPage, cmpOutput, cmpWarnings, cmpResult,
                         cmpFailed, cmpStarted>>
    /\ UNCHANGED notCompress

\* renderPageToCompressedImage(pdf, pageNum, preset) settles
CompressRendered ==
    /\ cmpPc = "render"
    /\ \/ /\ cmpPc' = "embed"
          /\ UNCHANGED <<cmpPage, cmpOutput, cmpWarnings, cmpError, cmpFailed,
                         cmpStarted>>
       \/ PageSkipped
    /\ UNCHANGED <<cmpArgs, cmpResult>>
    /\ UNCHANGED notCompress

\* output.embedJpg(compressed.jpegBytes) settles; then addPage and drawImage
CompressEmbedded ==
    /\ cmpPc = "embed"
    /\ \/ /\ cmpOutput' = Append(cmpOutput,
                 CompressedPage(cmpPage, getCompressionPreset(cmpArgs.presetId)))
          /\ CompressLoopTest(cmpPage + 1, cmpOutput')
          /\ UNCHANGED <<cmpWarnings, cmpFailed>>
       \/ PageSkipped
    /\ UNCHANGED <<cmpArgs, cmpResult>>
    /\ UNCHANGED notCompress

\* output.save() settles; compressPdfWithPreset builds its result
CompressSaved ==
    /\ cmpPc = "saving"
    /\ \/ /\ cmpResult' = [returned |-> TRUE, pdfBytes |-> cmpOutput,
                           warnings |-> cmpWarnings,
                           hasWarnings |-> Len(cmpWarnings) > 0]
          /\ cmpPc' = "done"
          /\ cmpError' = cmpError
       \/ /\ \E e \in ServiceFaults : cmpError' = Unwrapped(e)
          /\ cmpPc' = "failed"
          /\ cmpResult' = cmpResult
    /\ UNCHANGED <<cmpArgs, cmpPage, cmpOutput, cmpWarnings, cmpFailed, cmpStarted>>
    /\ UNCHANGED notCompress

NextCompress ==
    \/ CompressCall
    \/ CompressCreated
    \/ CompressRendered
    \/ CompressEmbedded
    \/ CompressSaved

(***************************************************************************)
(* Claims about compression.                                               *)
(***************************************************************************)
Increasing(seq, key(_)) ==
    \A i, j \in 1..Len(seq) : i < j => key(seq[i]) < key(seq[j])
SourceOf(page) == page.source
PageOf(warning) == warning.page
Sources(output) == {output[i].source : i \in 1..Len(output)}
\* the pages whose try block has ended
Finished == Len(cmpOutput) + Len(cmpWarnings)

C22_InIndexOrder ==
    /\ \A i \in 1..Len(cmpStarted) : cmpStarted[i] = i
    /\ Len(cmpStarted) <= cmpArgs.pageCount
    /\ Len(cmpStarted) = Finished + (IF cmpPc \in {"render", "embed"} THEN 1 ELSE 0)
    /\ cmpPc \in {"render", "embed"} => cmpPage = Len(cmpStarted)
C22_OneWarningPerFailure ==
    /\ Len(cmpWarnings) = Cardinality(cmpFailed)
    /\ {cmpWarnings[i].page : i \in 1..Len(cmpWarnings)} = cmpFailed
    /\ Increasing(cmpWarnings, PageOf)
    /\ \A i \in 1..Len(cmpWarnings) : cmpWarnings[i] = WarningFor(cmpWarnings[i].page)
C22_FailedPagesLeftOut ==
    /\ Sources(cmpOutput) = (1..Finished) \ cmpFailed
    /\ Len(cmpOutput) = Cardinality(Sources(cmpOutput))
    /\ Increasing(cmpOutput, SourceOf)
C22_ResultHoldsTheRest ==
    cmpResult.returned =>
        /\ cmpPc = "done"
        /\ Finished = cmpArgs.pageCount
        /\ cmpResult.pdfBytes = cmpOutput
        /\ Sources(cmpResult.pdfBytes) = (1..cmpArgs.pageCount) \ cmpFailed
        /\ cmpResult.warnings = cmpWarnings
        /\ cmpResult.hasWarnings <=> cmpFailed # {}
\* a step in which a page fails goes on with the next page, if there is one
C22_GoesOnAfterFailure ==
    cmpFailed' # cmpFailed =>
        /\ cmpFailed' = cmpFailed \cup {cmpPage}
        /\ cmpPage' = cmpPage + 1
        /\ cmpOutput' = cmpOutput
        /\ Len(cmpWarnings') = Len(cmpWarnings) + 1
        /\ cmpPage < cmpArgs.pageCount => cmpPc' = "render"
        /\ cmpPc' # "failed" \/ (cmpPage = cmpArgs.pageCount /\ Len(cmpOutput) = 0)
\* C22: compress works through the pages one after another in index order; a
\* page that fails adds exactly one warning naming it, adds no page to the
\* output, and the next page is processed; a result holds exactly the pages
\* that did not fail, in increasing order, with one warning per failed page.
C22_PageFailuresBecomeWarnings ==
    /\ [](C22_InIndexOrder /\ C22_OneWarningPerFailure
            /\ C22_FailedPagesLeftOut /\ C22_ResultHoldsTheRest)
    /\ [][C22_GoesOnAfterFailure]_compressVars

\* one of five pages fails: four output pages and one warning
C22_Witness ==
    /\ cmpPc = "done"
    /\ cmpArgs.pageCount = 5
    /\ cmpFailed = {3}
    /\ Len(cmpResult.pdfBytes) = 4
    /\ cmpResult.warnings = <<WarningFor(3)>>

\* C23: a call in which no page is compressed (every page fails, or there is
\* no page) fails as a whole and returns nothing; every result returned holds
\* at least one page.
C23_NoEmptyResult ==
    /\ cmpResult.returned => Len(cmpResult.pdfBytes) >= 1
    /\ cmpPc \in {"saving", "done"} => Len(cmpOutput) >= 1
    /\ cmpPc = "failed" => ~cmpResult.returned
    /\ cmpPage > cmpArgs.pageCount /\ cmpFailed = 1..cmpArgs.pageCount =>
           /\ cmpPc = "failed"
           /\ cmpError = NoPagesError
           /\ ~cmpResult.returned

\* both pages of a document of two fail
C23_Witness ==
    /\ cmpPc = "failed"
    /\ cmpArgs.pageCount = 2
    /\ cmpFailed = {1, 2}
    /\ cmpError = NoPagesError
    /\ ~cmpResult.returned

(***************************************************************************)
(* src/lib/pdfCompression: estimateCompressedSize.  The product            *)
(* originalSize * preset.targetRatio is the IEEE-754 double product: the   *)
(* exact product of the integer size and the 53-bit significand of the     *)
(* ratio, rounded to 53 significant bits, ties to even.  Bit sequences     *)
(* have their least significant bit first.                                 *)
(***************************************************************************)
ExampleSize == 1000000

RECURSIVE ToBits(_)
ToBits(n) == IF n = 0 THEN <<>> ELSE <<n % 2>> \o ToBits(n \div 2)
RECURSIVE FromBits(_)
FromBits(bits) ==
    IF bits = <<>> THEN 0 ELSE Head(bits) + 2 * FromBits(Tail(bits))
\* the bits of x * bits + carry
RECURSIVE TimesBits(_, _, _)
TimesBits(bits, x, carry) ==
    IF bits = <<>> THEN ToBits(carry)
    ELSE LET t == x * Head(bits) + carry
         IN  <<t % 2>> \o TimesBits(Tail(bits), x, t \div 2)
RECURSIVE Increment(_)
Increment(bits) ==
    IF bits = <<>> THEN <<1>>
    ELSE IF Head(bits) = 0 THEN <<1>> \o Tail(bits)
         ELSE <<0>> \o Increment(Tail(bits))

\* long division: count further bits of rem / den < 1 after the binary point,
\* put in front of bits, and the remainder they leave
RECURSIVE DivideBits(_, _, _, _)
DivideBits(rem, den, count, bits) ==
    IF count = 0 THEN [bits |-> bits, rem |-> rem]
    ELSE IF 2 * rem >= den
         THEN DivideBits(2 * rem - den, den, count - 1, <<1>> \o bits)
         ELSE DivideBits(2 * rem, den, count - 1, <<0>> \o bits)

\* the double a decimal literal in [1/2, 1) denotes: the 53 bits of its
\* significand, rounded to nearest, ties to even; its exponent is -1
ToDoubleTruncating(literal) ==
    [exponent |-> 0 - 1, bits |-> DivideBits(literal[1], literal[2], 53, <<>>).bits]
ToDouble(literal) ==
    LET quotient == DivideBits(literal[1], literal[2], 53, <<>>)
        rest == 2 * quotient.rem
    IN  [exponent |-> 0 - 1,
         bits |-> IF rest > literal[2] \/ (rest = literal[2] /\ quotient.bits[1] = 1)
                  THEN Increment(quotient.bits) ELSE quotient.bits]

\* round an exact product to 53 significant bits, ties to even: what is left
\* are the kept bits and the count of bits dropped
RoundToDouble(exact) ==
    LET dropped == Len(exact) - 53
        kept == SubSeq(exact, dropped + 1, Len(exact))
        above == /\ dropped >= 1
                 /\ exact[dropped] = 1
                 /\ \E i \in 1..(dropped - 1) : exact[i] = 1
        tie == /\ dropped >= 1
               /\ exact[dropped] = 1
               /\ \A i \in 1..(dropped - 1) : exact[i] = 0
    IN  [bits |-> IF above \/ (tie /\ kept[1] = 1) THEN Increment(kept) ELSE kept,
         dropped |-> dropped]

\* originalSize * targetRatio for an integer originalSize: not positive, or
\* the double bits * 2^(dropped + exponent - 52)
Times(originalSize, ratio) ==
    IF originalSize <= 0 THEN [positive |-> FALSE, bits |-> <<>>, point |-> 0]
    ELSE LET rounded == RoundToDouble(TimesBits(ratio.bits, originalSize, 0))
         IN  [positive |-> TRUE, bits |-> rounded.bits,
              point |-> 52 - ratio.exponent - rounded.dropped]

\* Math.round(value) of a positive double with its binary point above bit
\* value.point: the integer part, plus one when the fraction is 1/2 or more
MathRound(value) ==
    FromBits(SubSeq(value.bits, value.point + 1, Len(value.bits)))
        + value.bits[value.point]

\* clampBytes(value)
clampBytes(value) ==
    IF ~value.positive THEN 1024
    ELSE LET rounded == MathRound(value)
         IN  IF rounded < 512 THEN 512 ELSE rounded

\* estimateCompressedSize(originalSize, presetId)
estimateCompressedSize(originalSize, presetId) ==
    clampBytes(Times(originalSize, ToDouble(getCompressionPreset(presetId).targetRatio)))

OriginalSizes == ((0 - MaxNegativeSize)..MaxOriginalSize) \cup {ExampleSize}

InitEstimate ==
    /\ estimated = FALSE
    /\ estArgs = [originalSize |-> 0, presetId |-> "balanced"]
    /\ estResult = 0

\* estimateCompressedSize is called and returns
EstimateCall ==
    /\ ~estimated
    /\ \E originalSize \in OriginalSizes, presetId \in PresetIds :
         /\ estArgs' = [originalSize |-> originalSize, presetId |-> presetId]
         /\ estResult' = estimateCompressedSize(originalSize, presetId)
    /\ estimated' = TRUE
    /\ UNCHANGED notEstimate

NextEstimate == EstimateCall

(***************************************************************************)
(* Claims about the size estimate.                                         *)
(***************************************************************************)
\* the ratio of a preset id as the decimal fraction the table is written in
DecimalRatio(presetId) ==
    IF presetId = "high" THEN <<17, 20>>
    ELSE IF presetId = "smallest" THEN <<11, 20>>
    ELSE <<7, 10>>
\* round(originalSize * ratio) in exact arithmetic, halves rounded up
ExactRound(originalSize, ratio) ==
    (2 * originalSize * ratio[1] + ratio[2]) \div (2 * ratio[2])
ExactEstimate(originalSize, presetId) ==
    LET r == ExactRound(originalSize, DecimalRatio(presetId))
    IN  IF r < 512 THEN 512 ELSE r
\* the exact product lies half-way between two integers
HalfWay(originalSize, ratio) ==
    (2 * originalSize * ratio[1]) % (2 * ratio[2]) = ratio[2]

\* C24 (as stated): the estimate is max(512, round(originalSize * ratio)) for
\* every positive size, with the ratios 0.85, 0.70 and 0.55, and 1024 for
\* every other size; an unknown preset counts as balanced.
C24_EstimateIsExactFormula ==
    estimated =>
        estResult = IF estArgs.originalSize > 0
                    THEN ExactEstimate(estArgs.originalSize, estArgs.presetId)
                    ELSE 1024


\* C24 (as the code has it): the estimate is 1024 for every size that is not
\* positive and at least 512 for every positive size; it is the exact
\* max(512, round(originalSize * ratio)) except that, where the exact product
\* of the size and 0.70 lies half-way between two integers, the double product
\* may fall below the half and the estimate is then one less; an unknown
\* preset counts as balanced, and 1,000,000 gives 850,000 / 700,000 / 550,000.
C24_EstimateWithinOne ==
    estimated =>
        LET size == estArgs.originalSize
            id == estArgs.presetId
            exact == ExactEstimate(size, id)
        IN  /\ size <= 0 => estResult = 1024
            /\ size > 0 =>
                 /\ estResult >= 512
                 /\ \/ estResult = exact
                    \/ /\ estResult = exact - 1
                       /\ HalfWay(size, DecimalRatio(id))
                       /\ id \in {"balanced", "unknown"}
            /\ id = "unknown" => estResult = estimateCompressedSize(size, "balanced")
            /\ size = ExampleSize =>
                 estResult = IF id = "high" THEN 850000
                             ELSE IF id = "smallest" THEN 550000 ELSE 700000

\* 1285 * 0.70 is 899.5 exactly, the double product is below it: 899, not 900
C24_Witness ==
    /\ estimated
    /\ estArgs = [originalSize |-> 1285, presetId |-> "balanced"]
    /\ HalfWay(1285, DecimalRatio("balanced"))
    /\ ExactEstimate(1285, "balanced") = 900
    /\ estResult = 899

(***************************************************************************)
(* src/lib/pdfErrors: the message a page shows for a failure it caught,    *)
(* setError(getFriendlyPdfError(problem)).                                 *)
(***************************************************************************)
PdfErrorCodes ==
    {"password-required", "password-incorrect", "corrupt", "missing-data",
     "not-found", "unsupported", "unknown"}
DEFAULT_MESSAGES ==
    [code \in PdfErrorCodes |->
        CASE code = "password-required" ->
               "This PDF is locked with a password. Unlock it first before uploading."
          [] code = "password-incorrect" ->
               "The password provided for this PDF is incorrect."
          [] code = "corrupt" ->
               "The file appears to be corrupted or is not a valid PDF."
          [] code = "missing-data" ->
               "We could not access the PDF data. Try downloading it locally before uploading."
          [] code = "not-found" -> "We could not locate the PDF file to open it."
          [] code = "unsupported" -> "This PDF uses features we do not support yet."
          [] OTHER -> "We couldn't open that PDF. Please try another file."]

\* super(message ?? DEFAULT_MESSAGES[code]): the message of a PdfLoadError
\* built without a message, or with undefined in its place
MessageOf(error) ==
    IF error.message \in {"none", "undefined"}
    THEN DEFAULT_MESSAGES[error.code] ELSE error.message

\* the values a page catches: a PdfLoadError, another Error, anything else
Thrown(error) ==
    [class |-> "PdfLoadError", code |-> error.code, message |-> MessageOf(error)]
Escaped(e) ==
    [class |-> IF e.isError THEN "Error" ELSE "other", code |-> "none",
     message |-> e.message]

\* getFriendlyPdfError(reason)
getFriendlyPdfErrorByCode(reason) ==
    IF reason.class = "PdfLoadError" THEN DEFAULT_MESSAGES[reason.code]
    ELSE DEFAULT_MESSAGES["unknown"]
getFriendlyPdfError(reason) ==
    IF reason.class = "PdfLoadError" THEN reason.message
    ELSE IF reason.class = "Error" /\ reason.message # "" THEN reason.message
    ELSE DEFAULT_MESSAGES["unknown"]

\* the messages the failures of the services carry
UnderlyingMessages ==
    {"boom", "Invalid PDF structure.", "Unexpected end of file.",
     "This PDF uses features we do not support yet.", ""}
WithMessage(e, message) == [e EXCEPT !.message = message]
Causes(faults) == {WithMessage(e, m) : e \in faults, m \in UnderlyingMessages}
NoFailure == [class |-> "none", code |-> "none", message |-> "none"]

Operations == {"load", "merge", "extract", "chunk", "apply", "compress"}
\* the message of the contract violation an operation rejects eagerly
UnsupportedMessage(operation) ==
    CASE operation = "merge" -> "Need at least two PDFs to merge."
      [] operation = "extract" -> "Select at least one valid page before splitting."
      [] operation = "chunk" -> "Chunk size must be at least one page."
      [] OTHER -> "Select at least one page before exporting."
\* the operations whose output.save() is returned without await, and compress,
\* which has no catch: a rejection leaves them as it is
LetsRejectionsEscape(operation) == operation \in {"merge", "apply", "compress"}

InitFriendly ==
    /\ failedOp = "none"
    /\ failCause = NoCause
    /\ failThrown = NoFailure
    /\ shownError = "none"

ShowFailure(operation, cause, thrown) ==
    /\ failedOp' = operation
    /\ failCause' = cause
    /\ failThrown' = thrown
    /\ shownError' = getFriendlyPdfError(thrown)
    /\ UNCHANGED notFriendly

\* the loader fails: the page shows what mapPdfJsError made of the failure
LoadFailureShown ==
    /\ failedOp = "none"
    /\ \E e \in Causes(ParseFaults \cup {NeedPassword, IncorrectPassword}) :
         ShowFailure("load", e, Thrown(mapPdfJsError(e)))

\* an operation rejects its arguments as unsupported
UnsupportedShown ==
    /\ failedOp = "none"
    /\ \E operation \in Operations \ {"load", "compress"} :
         ShowFailure(operation, NoCause,
                     Thrown(PdfLoadError("unsupported", UnsupportedMessage(operation))))

\* a service fails inside the try block of an operation
WrappedFailureShown ==
    /\ failedOp = "none"
    /\ \E operation \in Operations \ {"load", "compress"}, e \in Causes(ServiceFaults) :
         ShowFailure(operation, e, Thrown(WrapUnknown(e)))

\* a rejection that no catch block of the operation sees
EscapedFailureShown ==
    /\ failedOp = "none"
    /\ \E operation \in Operations, e \in Causes(ServiceFaults) :
         /\ LetsRejectionsEscape(operation)
         /\ ShowFailure(operation, e, Escaped(e))

\* compress ends with no page compressed
NoPagesShown ==
    /\ failedOp = "none"
    /\ ShowFailure("compress", NoCause,
                   [class |-> "Error", code |-> "none", message |-> NoPagesError.message])

NextFriendly ==
    \/ LoadFailureShown
    \/ UnsupportedShown
    \/ WrappedFailureShown
    \/ EscapedFailureShown
    \/ NoPagesShown

(***************************************************************************)
(* Claims about the friendly messages.                                     *)
(***************************************************************************)
\* C25 (as stated): the message shown depends on the error kind only: a
\* failure of a kind of the taxonomy shows that kind's fixed message, any
\* other failure the generic fallback message.
C25_MessageByKindOnly ==
    failedOp # "none" =>
        shownError = IF failThrown.class = "PdfLoadError"
                     THEN DEFAULT_MESSAGES[failThrown.code]
                     ELSE DEFAULT_MESSAGES["unknown"]

LoaderKinds ==
    {"password-required", "password-incorrect", "corrupt", "missing-data", "not-found"}
\* C25 (as the code has it): the message shown is the message the error carries.
\* The five kinds the loader recognises show their kind's fixed message;
\* Unsupported shows the message of the operation that rejected its arguments;
\* Unknown shows the message of the underlying failure when that is an Error
\* (even an empty one) and the fallback message otherwise; a failure that is
\* no PdfLoadError shows its own message when it is an Error with a non-empty
\* message and the fallback message otherwise.
C25_MessageCarriedByError ==
    failedOp # "none" =>
        shownError =
            IF failThrown.class = "PdfLoadError"
            THEN IF failThrown.code \in LoaderKinds
                 THEN DEFAULT_MESSAGES[failThrown.code]
                 ELSE IF failThrown.code = "unsupported"
                      THEN UnsupportedMessage(failedOp)
                      ELSE IF failCause.isError THEN failCause.message
                           ELSE DEFAULT_MESSAGES["unknown"]
            ELSE IF failThrown.class = "Error" /\ failThrown.message # ""
                 THEN failThrown.message
                 ELSE DEFAULT_MESSAGES["unknown"]

\* merge rejects a single input with its own message, not the kind's
C25_Witness ==
    /\ failedOp = "merge"
    /\ failThrown.class = "PdfLoadError"
    /\ failThrown.code = "unsupported"
    /\ shownError = "Need at least two PDFs to merge."
    /\ shownError # DEFAULT_MESSAGES["unsupported"]

(***************************************************************************)
(* src/state/activityLog: the store of the activity log.  An entry is      *)
(* [id, type, label]; the id createId() makes is new with every call, here *)
(* the number of the call, counted from 0.                                 *)
(***************************************************************************)
LOG_LIMIT == 12
ActivityCategories == {"merge", "split-selection"}

\* [entry, ...state.entries].slice(0, 12)
WithEntryUntrimmed(entries, added) == <<added>> \o entries
WithEntry(entries, added) ==
    SubSeq(<<added>> \o entries, 1, Min(LOG_LIMIT, Len(entries) + 1))

InitLog ==
    /\ logEntries = <<>>
    /\ logAdded = 0

\* addEntry(payload)
AddEntry ==
    /\ logAdded < MaxLogAdds
    /\ \E type \in ActivityCategories :
         logEntries' = WithEntry(logEntries,
                           [id |-> logAdded, type |-> type, label |-> logAdded])
    /\ logAdded' = logAdded + 1
    /\ UNCHANGED notLog

\* clear()
ClearLog ==
    /\ logEntries' = <<>>
    /\ UNCHANGED logAdded
    /\ UNCHANGED notLog

\* reset()
ResetLog ==
    /\ logEntries' = <<>>
    /\ UNCHANGED logAdded
    /\ UNCHANGED notLog

NextLog ==
    \/ AddEntry
    \/ ClearLog
    \/ ResetLog

(***************************************************************************)
(* Claims about the activity log.                                          *)
(***************************************************************************)
C26_AtMostTwelveNewestFirst ==
    /\ Len(logEntries) <= 12
    /\ \A i, j \in 1..Len(logEntries) : i < j => logEntries[i].id > logEntries[j].id
\* an added entry comes first and the entries before it follow in their
\* order, all but the twelfth of a full log
C26_OldestDropped ==
    logAdded' = logAdded + 1 =>
        /\ logEntries'[1].id = logAdded
        /\ Len(logEntries') = (IF Len(logEntries) = 12 THEN 12 ELSE Len(logEntries) + 1)
        /\ \A i \in 2..Len(logEntries') : logEntries'[i] = logEntries[i - 1]
\* C26: after any sequence of addEntry, clear and reset calls the log holds
\* at most 12 entries, the newest first; adding to a log of 12 drops the oldest.
C26_LogBounded ==
    []C26_AtMostTwelveNewestFirst /\ [][C26_OldestDropped]_logVars

\* after adding the entries 0 to 14 the log holds 14 down to 3
C26_Witness ==
    /\ logAdded = 15
    /\ Len(logEntries) = 12
    /\ \A i \in 1..12 : logEntries[i].label = 15 - i

(***************************************************************************)
(* src/state/pdfAssets: the shared asset store.  addAsset is async: one    *)
(* action for the call and one for each await; several calls may be in     *)
(* flight.  An asset is [id, doc]: the id createId() gave the loaded       *)
(* document, new with every load, and its parsed handle.                   *)
(***************************************************************************)
NoStoreError == "null"
AssetIds == 1..(MaxAssetCalls + 1)

\* reorder(list, fromIndex, toIndex) for indices within the list
reorder(list, fromIndex, toIndex) ==
    LET removed == list[fromIndex + 1]
        result == SubSeq(list, 1, fromIndex) \o SubSeq(list, fromIndex + 2, Len(list))
    IN  SubSeq(result, 1, toIndex) \o <<removed>> \o SubSeq(result, toIndex + 1, Len(result))

\* destroyAssetDoc(asset): the handles destroy() has been called on
destroyAssetDocSkipped(released, asset) == released
destroyAssetDoc(released, asset) == released \cup {asset.doc}

\* state.assets.filter((entry) => entry.id !== id)
RECURSIVE WithoutId(_, _)
WithoutId(list, id) ==
    IF list = <<>> THEN <<>>
    ELSE IF Head(list).id = id THEN WithoutId(Tail(list), id)
         ELSE <<Head(list)>> \o WithoutId(Tail(list), id)

InitAssets ==
    /\ assets = <<>>
    /\ isBusy = FALSE
    /\ assetError = NoStoreError
    /\ sourcing = 0
    /\ loadingAssets = 0
    /\ assetCalls = 0
    /\ opened = {}
    /\ destroyed = {}

\* addAsset(file, options) up to createPdfSourceFromFile
AddAssetCall ==
    /\ assetCalls < MaxAssetCalls
    /\ assetCalls' = assetCalls + 1
    /\ \/ /\ assetError' = "Please choose valid PDF files."
          /\ isBusy' = FALSE
          /\ UNCHANGED sourcing
       \/ /\ assetError' = NoStoreError
          /\ isBusy' = TRUE
          /\ sourcing' = sourcing + 1
    /\ UNCHANGED <<assets, loadingAssets, opened, destroyed>>
    /\ UNCHANGED notAssets

\* createPdfSourceFromFile settles
AssetSourced ==
    /\ sourcing > 0
    /\ sourcing' = sourcing - 1
    /\ \/ /\ loadingAssets' = loadingAssets + 1
          /\ UNCHANGED <<isBusy, assetError>>
       \/ /\ \E e \in ServiceFaults : assetError' = getFriendlyPdfError(Escaped(e))
          /\ isBusy' = FALSE
          /\ UNCHANGED loadingAssets
    /\ UNCHANGED <<assets, assetCalls, opened, destroyed>>
    /\ UNCHANGED notAssets

\* loadPdfFromSource settles: the asset is appended, or the error is shown
AssetLoaded ==
    /\ loadingAssets > 0
    /\ loadingAssets' = loadingAssets - 1
    /\ isBusy' = FALSE
    /\ \/ LET id == Cardinality(opened) + 1
          IN  /\ opened' = opened \cup {id}
              /\ assets' = Append(assets, [id |-> id, doc |-> id])
              /\ UNCHANGED assetError
       \/ /\ \E e \in ParseFaults \cup {NeedPassword, IncorrectPassword} :
                assetError' = getFriendlyPdfError(Thrown(mapPdfJsError(e)))
          /\ UNCHANGED <<assets, opened>>
    /\ UNCHANGED <<sourcing, assetCalls, destroyed>>
    /\ UNCHANGED notAssets

\* removeAsset(id)
RemoveAsset ==
    /\ \E id \in AssetIds :
         /\ destroyed' =
              IF \E i \in 1..Len(assets) : assets[i].id = id
              THEN destroyAssetDoc(destroyed,
                       assets[CHOOSE i \in 1..Len(assets) :
                                 /\ assets[i].id = id
                                 /\ \A j \in 1..(i - 1) : assets[j].id # id])
              ELSE destroyed
         /\ assets' = WithoutId(assets, id)
    /\ UNCHANGED <<isBusy, assetError, sourcing, loadingAssets, assetCalls, opened>>
    /\ UNCHANGED notAssets

\* reorderAssets(fromIndex, toIndex)
ReorderAssets ==
    /\ \E fromIndex \in (0 - 1)..Len(assets), toIndex \in (0 - 1)..Len(assets) :
         assets' =
            IF fromIndex = toIndex THEN assets
            ELSE IF \/ fromIndex < 0 \/ toIndex < 0
                    \/ fromIndex >= Len(assets) \/ toIndex >= Len(assets)
                 THEN assets
                 ELSE reorder(assets, fromIndex, toIndex)
    /\ UNCHANGED <<isBusy, assetError, sourcing, loadingAssets, assetCalls, opened,
                   destroyed>>
    /\ UNCHANGED notAssets

\* clearError()
ClearStoreError ==
    /\ assetError' = NoStoreError
    /\ UNCHANGED <<assets, isBusy, sourcing, loadingAssets, assetCalls, opened, destroyed>>
    /\ UNCHANGED notAssets

RECURSIVE DestroyAll(_, _)
DestroyAll(released, list) ==
    IF list = <<>> THEN released
    ELSE DestroyAll(destroyAssetDoc(released, Head(list)), Tail(list))

\* reset()
ResetAssets ==
    /\ destroyed' = DestroyAll(destroyed, assets)
    /\ assets' = <<>>
    /\ isBusy' = FALSE
    /\ assetError' = NoStoreError
    /\ UNCHANGED <<sourcing, loadingAssets, assetCalls, opened>>
    /\ UNCHANGED notAssets

NextAssets ==
    \/ AddAssetCall
    \/ AssetSourced
    \/ AssetLoaded
    \/ RemoveAsset
    \/ ReorderAssets
    \/ ClearStoreError
    \/ ResetAssets

(***************************************************************************)
(* Claims about the asset store.                                           *)
(***************************************************************************)
InStore == {assets[i].doc : i \in 1..Len(assets)}
\* C27: the parsed handle of every asset that has left the store has been
\* released, and the handle of no asset still in the store has been released.
C27_LeftStoreIffReleased ==
    /\ InStore \subseteq opened
    /\ destroyed = opened \ InStore

\* reset while a load is in flight: the asset loaded first is released, the one
\* whose load ends after the reset is in the store with its handle
C27_Witness ==
    /\ opened = {1, 2}
    /\ destroyed = {1}
    /\ InStore = {2}
    /\ assetCalls = 2
    /\ loadingAssets = 0

(***************************************************************************)
(* Claims about the invocations of the password callback.                  *)
(***************************************************************************)
\* an attempt of the loader ends in failure
AttemptFails == lpc \in Running /\ lpc' \notin Running \cup {"success"}
\* the load has ended with the error of an attempt the callback was asked about
EndedByAnswer ==
    lpc = "failed" /\ hasCallback /\ lerror.code \in PasswordCodes /\ Len(asked) >= 1
\* the invocations of the callback that have been answered; every answer but
\* the one that ended the load started a new attempt
Answered == IF lpc = "awaitingPassword" THEN Len(asked) - 1 ELSE Len(asked)
NonEmptyAnswers ==
    IF EndedByAnswer
    THEN Len(asked) - 1 + (IF response.present /\ response.text # <<>> THEN 1 ELSE 0)
    ELSE Answered
NonBlankAnswers ==
    IF EndedByAnswer
    THEN Len(asked) - 1 + (IF response.present /\ ~IsBlank(response.text) THEN 1 ELSE 0)
    ELSE Answered

\* C28 (as stated): when the load has ended, the number of parse attempts is
\* the number of non-empty answers of the callback plus one.
C28_AttemptsCountNonEmptyAnswers ==
    lpc \in {"success", "failed"} => attempts = NonEmptyAnswers + 1

C28_AskedOnlyAfterPasswordFailure ==
    asked' # asked =>
        /\ AttemptFails
        /\ hasCallback
        /\ lerror'.code \in PasswordCodes
        /\ asked' = Append(asked, lerror'.code)
        /\ lpc' = "awaitingPassword"
        /\ attempts' = attempts
C28_FailureAsksOnceOrPropagates ==
    AttemptFails =>
        IF hasCallback /\ lerror'.code \in PasswordCodes
        THEN Len(asked') = Len(asked) + 1
        ELSE /\ lpc' = "failed"
             /\ asked' = asked
             /\ attempts' = attempts
C28_RetryOnlyOnAnswer ==
    attempts' # attempts /\ attempts >= 1 =>
        /\ lpc = "awaitingPassword"
        /\ attempts' = attempts + 1
        /\ asked' = asked
        /\ response'.present /\ ~IsBlank(response'.text)
C28_Counts ==
    /\ ~hasCallback => asked = <<>> /\ attempts <= 1
    /\ lpc \in {"success", "failed"} => attempts = NonBlankAnswers + 1
    /\ lpc = "success" => attempts = Len(asked) + 1
\* C28 (as the code has it): the callback is invoked only after an attempt
\* failed with a password error, once per such attempt and with its kind as
\* the reason; any other failure, and a password failure without a callback,
\* ends the load at once; a new attempt follows an answer that is not blank
\* and nothing else.  When the load has ended, the number of attempts is the
\* number of answers that were not blank plus one.
C28_CallbackDiscipline ==
    /\ []C28_Counts
    /\ [][/\ C28_AskedOnlyAfterPasswordFailure
          /\ C28_FailureAsksOnceOrPropagates
          /\ C28_RetryOnlyOnAnswer]_loadVars

\* asked twice, for a missing and then for a wrong password; the second
\* answer is white space only and ends the load after two attempts
C28_Witness ==
    /\ lpc = "failed"
    /\ hasCallback
    /\ asked = <<"password-required", "password-incorrect">>
    /\ response.present /\ response.text # <<>> /\ IsBlank(response.text)
    /\ attempts = 2

(***************************************************************************)
(* MergeToolPage: files are ingested one after another by addAsset, whose  *)
(* load asks for a password through requestPassword; the page keeps the    *)
(* resolve of one request in passwordPrompt and the modal answers it.      *)
(***************************************************************************)
NoPrompt == 0
IdleIngest == [pc |-> "idle", left |-> 0, supplied |-> FALSE]
DoneIngest == [pc |-> "done", left |-> 0, supplied |-> FALSE]
\* await addAsset(file, ...) of the first or next file: its load has no
\* password yet
AddingAsset(count) == [pc |-> "loading", left |-> count, supplied |-> FALSE]
\* for (const file of Array.from(files)) after addAsset has settled
AfterAsset(ingest) ==
    IF ingest.left <= 1 THEN DoneIngest ELSE AddingAsset(ingest.left - 1)
\* setPasswordPrompt({ fileName, reason, resolve }) puts the new request
\* in place of whatever the state held
setPasswordPrompt(prompt, request) == request
\* resolve(value) of a request: a promise settles once
Resolved(all, request, value) ==
    [all EXCEPT ![request].answer = IF @ = "pending" THEN value ELSE @]
\* the requests nothing has answered
PendingRequests == {r \in 1..Len(requests) : requests[r].answer = "pending"}

InitWorkspace ==
    /\ ingests = [i \in 1..MaxIngests |-> IdleIngest]
    /\ passwordPrompt = NoPrompt
    /\ requests = <<>>

\* ingestFiles(files), from a drop or from the file input
IngestFiles(i) ==
    /\ ingests[i].pc = "idle"
    /\ \A earlier \in 1..(i - 1) : ingests[earlier].pc # "idle"
    /\ UNCHANGED notWorkspace
    /\ \E count \in 0..MaxIngestFiles :
         ingests' = [ingests EXCEPT ![i] =
                        IF count = 0 THEN DoneIngest ELSE AddingAsset(count)]
    /\ UNCHANGED <<passwordPrompt, requests>>

\* addAsset settles: the file was loaded, or it failed in a way that asks for
\* no password, and the loop goes on
AssetSettled(i) ==
    /\ ingests[i].pc = "loading"
    /\ UNCHANGED notWorkspace
    /\ ingests' = [ingests EXCEPT ![i] = AfterAsset(@)]
    /\ UNCHANGED <<passwordPrompt, requests>>

\* the load fails for its password and calls requestPassword(file.name)(reason)
PasswordRequested(i) ==
    /\ ingests[i].pc = "loading"
    /\ Len(requests) < MaxRequests
    /\ UNCHANGED notWorkspace
    /\ LET reason == IF ingests[i].supplied THEN "password-incorrect"
                     ELSE "password-required"
       IN  requests' = Append(requests,
                [ingest |-> i, reason |-> reason, answer |-> "pending"])
    /\ passwordPrompt' = setPasswordPrompt(passwordPrompt, Len(requests) + 1)
    /\ ingests' = [ingests EXCEPT ![i].pc = "asking"]

\* handlePasswordSubmit(password): the modal submits passwords that are not
\* blank, so the load waiting for this request tries again
handlePasswordSubmit ==
    /\ passwordPrompt # NoPrompt
    /\ UNCHANGED notWorkspace
    /\ requests' = Resolved(requests, passwordPrompt, "password")
    /\ passwordPrompt' = NoPrompt
    /\ ingests' = [ingests EXCEPT ![requests[passwordPrompt].ingest] =
                      [@ EXCEPT !.pc = "loading", !.supplied = TRUE]]

\* handlePasswordCancel(): the load waiting for this request fails, addAsset
\* stores the error and the loop goes on
handlePasswordCancel ==
    /\ passwordPrompt # NoPrompt
    /\ UNCHANGED notWorkspace
    /\ requests' = Resolved(requests, passwordPrompt, "null")
    /\ passwordPrompt' = NoPrompt
    /\ ingests' = [ingests EXCEPT ![requests[passwordPrompt].ingest] =
                      AfterAsset(@)]

NextWorkspace ==
    \/ \E i \in 1..MaxIngests : IngestFiles(i)
    \/ \E i \in 1..MaxIngests : AssetSettled(i)
    \/ \E i \in 1..MaxIngests : PasswordRequested(i)
    \/ handlePasswordSubmit
    \/ handlePasswordCancel

(***************************************************************************)
(* Claims about the password prompt of the merge workspace.                *)
(***************************************************************************)
\* C30: every password request that has not been answered is the one whose
\* resolve the page holds, so the modal can still answer it: no request is
\* replaced while it is pending, and an addAsset call waits for a request
\* only while that request can be answered.
C30_PendingRequestIsPrompted ==
    /\ \A r \in PendingRequests : passwordPrompt = r
    /\ \A i \in 1..MaxIngests :
          ingests[i].pc = "asking" =>
              /\ passwordPrompt # NoPrompt
              /\ requests[passwordPrompt].ingest = i

vars == <<loadVars, mergeVars, extractVars, chunkVars, applyVars, editVars, pngVars,
         imageVars, layoutVars,
         compressVars,
         estimateVars,
         friendlyVars,
         logVars,
         assetsVars,
         workspaceVars>>
Init == InitLoad /\ InitMerge /\ InitExtract /\ InitChunk /\ InitApply
        /\ InitEdit /\ InitPng /\ InitImages /\ InitLayout
        /\ InitCompress
        /\ InitEstimate
        /\ InitFriendly
        /\ InitLog
        /\ InitAssets
        /\ InitWorkspace
SpecLoad == Init /\ [][NextLoad]_vars
SpecMerge == Init /\ [][NextMerge]_vars
SpecExtract == Init /\ [][NextExtract]_vars
SpecChunk == Init /\ [][NextChunk]_vars
SpecApply == Init /\ [][NextApply]_vars
SpecEdit == Init /\ [][NextEdit]_vars
SpecExport == Init /\ [][NextExport]_vars
SpecPng == Init /\ [][NextPng]_vars
\* the loop of isPngBytesComplete is synchronous code: a pass it can make, it makes
SpecPngWalk == SpecPng /\ WF_vars(PngStep)
SpecImages == Init /\ [][NextImages]_vars
SpecLayout == Init /\ [][NextLayout]_vars
SpecCompress == Init /\ [][NextCompress]_vars
SpecEstimate == Init /\ [][NextEstimate]_vars
SpecFriendly == Init /\ [][NextFriendly]_vars
SpecLog == Init /\ [][NextLog]_vars
SpecAssets == Init /\ [][NextAssets]_vars
SpecWorkspace == Init /\ [][NextWorkspace]_vars
====
